---- MODULE Spec2Model ----
(***************************************************************************)
(* The in-circuit Halo2/Shplonk verifier of halo2aggregator-s (gnark):     *)
(* Halo2VerifierCircuit.Define and the stages it sequences - the word      *)
(* codec (proofToU256), the instance-commitment calculator, the transcript *)
(* engine (getChallengesShPlonkCircuit), the assembler and the pairing     *)
(* check.                                                                  *)
(*                                                                         *)
(* Circuit variables carry their witness values, so that an emitted        *)
(* constraint can be evaluated.  256-bit quantities are sequences of 32    *)
(* base-256 digits ("Big", least significant digit first), because they do *)
(* not fit a machine integer.  Points produced by the emulated curve       *)
(* arithmetic of the gnark library are terms (ScalarMul / Add), their      *)
(* coordinates are given by the encoding Coord.                            *)
(***************************************************************************)
EXTENDS Integers, Sequences, FiniteSets, TLC

(* ------------------------------ bounds -------------------------------- *)

\* NbAdvices + NbLookupsM + NbLookupsZs + NbPermutationGroups + Degree +
\* NbEvals of an enumerated Config is at most MaxTotal
MaxTotal == 3
\* a transcript has up to MaxSurplus words more than the Config consumes
MaxSurplus == 1
\* a transcript has up to MaxMissing words fewer than the Config consumes
MaxMissing == 2
\* an instance group has up to MaxInstances scalars
MaxInstances == 3

(* ------------------------- program constants -------------------------- *)

WordBytes == 32
NbU64 == 4
U64Bytes == 8
U256Bits == 256
DigestLen == 32
\* emparams.BN254Fp: NbLimbs() = 4, BitsPerLimb() = 64
NbLimbs == 4
BitsPerLimb == 64
\* bit length of the BN254 base field modulus
FpModulusBits == 254

(* --------------------------- Big arithmetic --------------------------- *)

Zeros(n) == [i \in 1..n |-> 0]

\* the Big of a small natural
BigOf(n) == [i \in 1..WordBytes |-> IF i = 1 THEN n % 256 ELSE IF i = 2 THEN (n \div 256) % 256 ELSE 0]

RECURSIVE BigGeqFrom(_, _, _)
BigGeqFrom(a, b, i) ==
    IF i = 0 THEN TRUE
    ELSE IF a[i] > b[i] THEN TRUE
    ELSE IF a[i] < b[i] THEN FALSE
    ELSE BigGeqFrom(a, b, i - 1)

\* a >= b, both least significant digit first and of equal length
BigGeq(a, b) == BigGeqFrom(a, b, Len(a))

RECURSIVE BigSubFrom(_, _, _, _)
BigSubFrom(a, b, borrow, i) ==
    IF i > Len(a) THEN <<>>
    ELSE LET t == a[i] - b[i] - borrow
         IN  IF t < 0 THEN <<t + 256>> \o BigSubFrom(a, b, 1, i + 1)
             ELSE <<t>> \o BigSubFrom(a, b, 0, i + 1)

\* a - b for a >= b
BigSub(a, b) == BigSubFrom(a, b, 0, 1)

RECURSIVE MulAddDigits(_, _, _, _)
MulAddDigits(acc, m, carry, i) ==
    IF i > Len(acc) THEN <<carry>>
    ELSE LET t == acc[i] * m + carry
         IN  <<t % 256>> \o MulAddDigits(acc, m, t \div 256, i + 1)

\* acc * m + a, one digit longer than acc (the last digit is the carry out)
BigMulAdd(acc, m, a) == MulAddDigits(acc, m, a, 1)

\* the scalar field moduli of the two native curves main accepts, most
\* significant byte first
BN254FrBE ==
    << 48, 100,  78, 114, 225,  49, 160,  41, 184,  80,  69, 182, 129, 129,  88,  93,
       40,  51, 232,  72, 121, 185, 112, 145,  67, 225, 245, 147, 240,   0,   0,   1 >>

BLS12381FrBE ==
    << 115, 237, 167,  83,  41, 157, 125,  72,  51,  57, 216,   8,   9, 161, 216,   5,
        83, 189, 164,   2, 255, 254,  91, 254, 255, 255, 255, 255,   0,   0,   0,   1 >>

Reverse(s) == [i \in 1..Len(s) |-> s[Len(s) + 1 - i]]

\* curveID.ScalarField() as a Big
ScalarField(curve) == IF curve = "BN254" THEN Reverse(BN254FrBE) ELSE Reverse(BLS12381FrBE)

RECURSIVE FieldReduce(_, _)
\* the representative of v in the native field: api.Add / api.Mul compute
\* modulo the scalar field
FieldReduce(v, q) == IF BigGeq(v, q) THEN FieldReduce(BigSub(v, q), q) ELSE v

(* ------------------------------ word codec ---------------------------- *)

\* uints ByteValueOf: the variable as a U8 (the value is kept; the range
\* check it emits is recorded by the caller)
ByteValueOf(v) == v

\* proofToU256 without the length check: a trailing partial word is dropped
proofToU256Truncating(proof) ==
    [err |-> "",
     words |-> [i \in 1..(Len(proof) \div WordBytes) |->
                 [j \in 1..NbU64 |->
                   [k \in 1..U64Bytes |->
                     ByteValueOf(proof[(i - 1) * 32 + (j - 1) * 8 + (k - 1) + 1])]]]]

\* proofToU256: U256 = [4]uints.U64, a U64 = [8]uints.U8;
\* transcript[i][j][k] = proof[i*32 + j*8 + k] (indices from 0 in the code)
proofToU256(proof) ==
    IF Len(proof) % WordBytes # 0
    THEN [err |-> "invalid proof size", words |-> <<>>]
    ELSE [err |-> "",
          words |-> [i \in 1..(Len(proof) \div WordBytes) |->
                      [j \in 1..NbU64 |->
                        [k \in 1..U64Bytes |->
                          ByteValueOf(proof[(i - 1) * 32 + (j - 1) * 8 + (k - 1) + 1])]]]]

\* the 32 bytes of a U256 / of a 4-limb element, least significant first
DigitsOf(x) == [n \in 1..WordBytes |-> x[((n - 1) \div U64Bytes) + 1][((n - 1) % U64Bytes) + 1]]

\* A slice of bits is held packed, eight to a byte, least significant bit
\* first, with its length: [n |-> number of bits, bytes |-> the bits]
\* bit i (from 0) of a slice of bits, as api.ToBinary(byte, 8) numbers them
BitAt(bits, i) == (bits.bytes[(i \div 8) + 1] \div (2 ^ (i % 8))) % 2

\* byte m (from 1) of a slice of bits, absent bits read as 0
ByteAt(bits, m) == IF m <= (bits.n + 7) \div 8 THEN bits.bytes[m] ELSE 0

\* U256ToBits: for each limb, for each byte, its 8 bits least significant
\* first: 256 bits, bit n (from 0) is bit n % 8 of byte (n % 64) / 8 of limb n / 64
U256ToBits(x) == [n |-> NbU64 * U64Bytes * 8, bytes |-> DigitsOf(x)]

\* emulated.Field.FromBits: packs the bits into limbs of BitsPerLimb bits
\* (a limb is held as its 8 bytes, least significant first)
FromBits(bits) ==
    [j \in 1..((bits.n + BitsPerLimb - 1) \div BitsPerLimb) |->
        [k \in 1..U64Bytes |-> ByteAt(bits, (j - 1) * (BitsPerLimb \div 8) + k)]]

\* U256API.FromBits: bits [0,64), [64,128), [128,192), [192,256) into limbs 0..3
U256FromBits(bits) ==
    [j \in 1..NbU64 |-> [k \in 1..U64Bytes |-> ByteAt(bits, (j - 1) * U64Bytes + k)]]

\* U256API.ToValue: the word as a native field variable
ToValue(x, q) == FieldReduce(DigitsOf(x), q)

(* ------------------------ non-native arithmetic ----------------------- *)

\* the assert-zero constraints on bits[from], bits[from+1], ... (from 0)
AssertZeroFrom(bits, from) ==
    [t \in 1..(bits.n - from) |->
        [kind |-> "AssertIsEqual", arg |-> <<BitAt(bits, from + t - 1), 0>>]]

\* ToBN254Fp: the element and the assert-zero constraints emitted for the
\* bits at fpBits = NbLimbs * BitsPerLimb and beyond
ToBN254Fp(input) ==
    LET bits == U256ToBits(input)
        fpBits == NbLimbs * BitsPerLimb
    IN  [element |-> FromBits(bits), asserts |-> AssertZeroFrom(bits, fpBits)]

\* ToBN254Point: X from point[0], Y from point[1]
ToBN254Point(x, y) ==
    LET fx == ToBN254Fp(x)
        fy == ToBN254Fp(y)
    IN  [point |-> [X |-> fx.element, Y |-> fy.element],
         asserts |-> fx.asserts \o fy.asserts]

\* AssertOnCurve without the call of curveApi.AssertIsOnCurve
AssertOnCurveUnchecked(x, y) ==
    LET r == ToBN254Point(x, y)
    IN  [point |-> r.point, constraints |-> r.asserts]

\* AssertOnCurve: the point of the two words, and the constraints emitted:
\* those of ToBN254Point, then curveApi.AssertIsOnCurve(point)
AssertOnCurve(x, y) ==
    LET r == ToBN254Point(x, y)
    IN  [point |-> r.point,
         constraints |-> r.asserts \o <<[kind |-> "AssertIsOnCurve", arg |-> r.point]>>]

\* api.ToBinary(input): the bits of a native variable, as many as the
\* native modulus has
NativeBits(curve) == IF curve = "BN254" THEN 254 ELSE 255

ToBinary(v, curve) == [n |-> NativeBits(curve), bytes |-> v]

\* ToBn254Fr: as ToBN254Fp, on the bits of a native variable
ToBn254Fr(input, curve) ==
    LET bits == ToBinary(input, curve)
        frBits == NbLimbs * BitsPerLimb
    IN  [element |-> FromBits(bits), asserts |-> AssertZeroFrom(bits, frBits)]

\* BN254FromConstant and curveApi.ScalarMul: the product is a term
BN254ScalarMulConstant(point, scalar, curve) ==
    LET fr == ToBn254Fr(scalar, curve)
    IN  [point |-> [op |-> "ScalarMul", base |-> point, scalar |-> fr.element],
         asserts |-> fr.asserts]

\* curveApi.Add: the sum is a term
BN254AddG1(a, b) == [op |-> "Add", a |-> a, b |-> b]

RECURSIVE SumRange(_, _, _)
\* s[lo] + ... + s[hi]
SumRange(s, lo, hi) ==
    IF lo > hi THEN 0
    ELSE IF lo = hi THEN s[lo]
    ELSE LET mid == (lo + hi) \div 2
         IN  SumRange(s, lo, mid) + SumRange(s, mid + 1, hi)

RECURSIVE Tag(_)
\* a number standing for the value of a point term (the curve arithmetic
\* itself is the library's)
Tag(P) ==
    IF P.op = "ScalarMul"
    THEN (3 * P.base[1][1] + 5 * P.base[2][1] + 7 * SumRange(DigitsOf(P.scalar), 1, WordBytes) + 1) % 251
    ELSE (7 * Tag(P.a) + 11 * Tag(P.b) + 3) % 251

\* the coordinate c (0 for X, 1 for Y) of a point term, as an Fp element
Coord(P, c) ==
    [j \in 1..NbLimbs |->
        [k \in 1..U64Bytes |->
            IF j = NbLimbs /\ k = U64Bytes THEN 0
            ELSE (Tag(P) * (c + 1) + 8 * (j - 1) + k + 29 * c) % 256]]

\* fpFieldApi.ToBits of the reduced element: its bits up to the modulus width
ElementToBits(e) == [n |-> FpModulusBits, bytes |-> DigitsOf(e)]

\* BN254FpToU256: reduce, take the bits, pad with zeros to 256, assert the
\* bits from 256 on zero, pack into a U256
BN254FpToU256(input) ==
    LET bits == ElementToBits(input)
        padded == IF bits.n < U256Bits THEN [n |-> U256Bits, bytes |-> bits.bytes] ELSE bits
    IN  U256FromBits(padded)

(* --------------------------- decimal strings -------------------------- *)

\* a decimal string is a sequence of one-character strings
Digits == <<"0", "1", "2", "3", "4", "5", "6", "7", "8", "9">>

IsDigit(c) == \E d \in 1..10 : Digits[d] = c

DigitVal(c) == (CHOOSE d \in 1..10 : Digits[d] = c) - 1

RECURSIVE ChunkVal(_, _, _)
\* the value of the k digits of s that end at index i
ChunkVal(s, i, k) == IF k = 0 THEN 0 ELSE 10 * ChunkVal(s, i - 1, k - 1) + DigitVal(s[i])

RECURSIVE ParseFrom(_, _, _)
\* the digits s[i..] taken into acc, up to six at a time
ParseFrom(s, i, acc) ==
    IF i > Len(s) THEN acc
    ELSE LET k == IF i + 5 <= Len(s) THEN 6 ELSE Len(s) - i + 1
         IN  CHOOSE r \in { ParseFrom(s, i + k, [val |-> SubSeq(t, 1, WordBytes),
                                                 over |-> acc.over \/ t[WordBytes + 1] # 0]) :
                            t \in {BigMulAdd(acc.val, 10 ^ k, ChunkVal(s, i + k - 1, k))} } : TRUE

\* new(big.Int).SetString(s, 10): an optional sign, then one or more
\* decimal digits and nothing else.  val: the low 32 digits of |x|,
\* over: |x| does not fit 32 bytes
SetString(s) ==
    LET signed == Len(s) > 0 /\ s[1] \in {"+", "-"}
        body == IF signed THEN SubSeq(s, 2, Len(s)) ELSE s
    IN  IF Len(body) = 0 \/ \E i \in 1..Len(body) : ~IsDigit(body[i])
        THEN [ok |-> FALSE, val |-> Zeros(WordBytes), over |-> FALSE]
        ELSE LET r == ParseFrom(body, 1, [val |-> Zeros(WordBytes), over |-> FALSE])
             IN  [ok |-> TRUE, val |-> r.val, over |-> r.over]

(* ------------------------------- errors ------------------------------- *)

NoIndex == 0 - 1

Nil == [msg |-> "", index |-> NoIndex, value |-> <<>>]

Errorf(msg, index, value) == [msg |-> msg, index |-> index, value |-> value]

\* an entry of the ordered record of the calls made
Event(op, round, pos, data) == [op |-> op, round |-> round, pos |-> pos, data |-> data]

(* ---------------------- instance-commitment calculator ---------------- *)

\* calcSingleInstanceCommitment reading the Lagrange commitment after the
\* one of its index
calcSingleInstanceCommitmentNext(cfg, curve, index, instance) ==
    IF index + 1 >= Len(cfg.VerifyCircuitGLagrange)
    THEN [status |-> "panic", err |-> Errorf("index out of range", index + 1, <<>>),
          point |-> <<>>, asserts |-> <<>>]
    ELSE LET entry == cfg.VerifyCircuitGLagrange[index + 2]
             x == SetString(entry[1])
             y == SetString(entry[2])
         IN  IF ~x.ok
             THEN [status |-> "err",
                   err |-> Errorf("invalid x in VerifyCircuitGLagrange", index, entry[1]),
                   point |-> <<>>, asserts |-> <<>>]
             ELSE IF ~y.ok
             THEN [status |-> "err",
                   err |-> Errorf("invalid y in VerifyCircuitGLagrange", index, entry[2]),
                   point |-> <<>>, asserts |-> <<>>]
             ELSE LET r == BN254ScalarMulConstant(<<x.val, y.val>>, instance, curve)
                  IN  [status |-> "ok", err |-> Nil, point |-> r.point, asserts |-> r.asserts]

\* calcSingleInstanceCommitment(index, instance); indices from 0 as in the code
calcSingleInstanceCommitment(cfg, curve, index, instance) ==
    IF index >= Len(cfg.VerifyCircuitGLagrange)
    THEN [status |-> "panic", err |-> Errorf("index out of range", index, <<>>),
          point |-> <<>>, asserts |-> <<>>]
    ELSE LET entry == cfg.VerifyCircuitGLagrange[index + 1]
             x == SetString(entry[1])
             y == SetString(entry[2])
         IN  IF ~x.ok
             THEN [status |-> "err",
                   err |-> Errorf("invalid x in VerifyCircuitGLagrange", index, entry[1]),
                   point |-> <<>>, asserts |-> <<>>]
             ELSE IF ~y.ok
             THEN [status |-> "err",
                   err |-> Errorf("invalid y in VerifyCircuitGLagrange", index, entry[2]),
                   point |-> <<>>, asserts |-> <<>>]
             ELSE LET r == BN254ScalarMulConstant(<<x.val, y.val>>, instance, curve)
                  IN  [status |-> "ok", err |-> Nil, point |-> r.point, asserts |-> r.asserts]

RECURSIVE calcLoop(_, _, _, _, _, _, _)
\* the loop of calcInstanceCommitment from index i on
calcLoop(cfg, curve, instances, i, acc, asserts, ops) ==
    IF i >= Len(instances)
    THEN [status |-> "ok", err |-> Nil, point |-> acc, asserts |-> asserts, ops |-> ops]
    ELSE LET p == calcSingleInstanceCommitment(cfg, curve, i, instances[i + 1])
         IN  IF p.status # "ok"
             THEN [status |-> p.status, err |-> p.err, point |-> <<>>,
                   asserts |-> asserts, ops |-> ops]
             ELSE calcLoop(cfg, curve, instances, i + 1, BN254AddG1(acc, p.point),
                           asserts \o p.asserts,
                           ops \o <<Event("ScalarMulConstant", i, i, <<>>),
                                    Event("AddG1", i, i, <<>>)>>)

\* calcInstanceCommitment(instances): term 0, then terms 1 .. n-1 added in turn
calcInstanceCommitment(cfg, curve, instances) ==
    IF Len(instances) = 0
    THEN [status |-> "panic", err |-> Errorf("index out of range", 0, <<>>),
          point |-> <<>>, asserts |-> <<>>, ops |-> <<>>]
    ELSE LET first == calcSingleInstanceCommitment(cfg, curve, 0, instances[1])
         IN  IF first.status # "ok"
             THEN [status |-> first.status, err |-> first.err, point |-> <<>>,
                   asserts |-> <<>>, ops |-> <<>>]
             ELSE calcLoop(cfg, curve, instances, 1, first.point, first.asserts,
                           <<Event("ScalarMulConstant", 0, 0, <<>>)>>)

(* --------------------------- transcript engine ------------------------ *)

RECURSIVE WeightedSum(_, _, _)
\* lo * s[lo] + ... + hi * s[hi]
WeightedSum(s, lo, hi) ==
    IF lo > hi THEN 0
    ELSE IF lo = hi THEN lo * s[lo]
    ELSE LET mid == (lo + hi) \div 2
         IN  (WeightedSum(s, lo, mid) + WeightedSum(s, mid + 1, hi)) % 65521

\* sha2Api.Write(input); sha2Api.Sum(): a 32-byte digest that depends on
\* every byte of the input, on its order and on its length (SHA-256 itself
\* is the library's)
Sha256(input) ==
    LET s1 == SumRange(input, 1, Len(input)) % 65521
        s2 == WeightedSum(input, 1, Len(input))
    IN  [k \in 1..DigestLen |-> (s1 * (k + 2) + s2 * (2 * k + 1) + 7 * Len(input) + k * k) % 256]

\* squeezeChallenge hashing the previous digest alone: what was absorbed
\* after the first 32 bytes of the buffer is left out of the hash
squeezeChallengeDigestOnly(absorbing, curve) ==
    LET input == Append(SubSeq(absorbing, 1, DigestLen), 0)
        res == Sha256(input)
        sum == FieldReduce([d \in 1..DigestLen |-> res[DigestLen + 1 - d]], ScalarField(curve))
    IN  [hashed |-> input, absorbing |-> res, challenge |-> sum]

\* squeezeChallenge packing the digest with res[0] least significant
squeezeChallengeLittleEndian(absorbing, curve) ==
    LET input == Append(absorbing, 0)
        res == Sha256(input)
        sum == FieldReduce(res, ScalarField(curve))
    IN  [hashed |-> input, absorbing |-> res, challenge |-> sum]

\* squeezeChallenge: append one 0 byte, hash, pack the digest big-endian
\* (sum = res[31] + res[30]*2^8 + ... + res[0]*2^248 in the native field),
\* the digest becomes the buffer
squeezeChallenge(absorbing, curve) ==
    LET input == Append(absorbing, 0)
        res == Sha256(input)
        sum == FieldReduce([d \in 1..DigestLen |-> res[DigestLen + 1 - d]], ScalarField(curve))
    IN  [hashed |-> input, absorbing |-> res, challenge |-> sum]

\* commonU256 appending the limbs 0 up to 3 and in each limb the bytes 0 up to 7
commonU256LittleEndian(absorbing, x) ==
    absorbing \o [m \in 1..WordBytes |->
                    x[((m - 1) \div U64Bytes) + 1][((m - 1) % U64Bytes) + 1]]

\* commonU256: limbs 3 down to 0, in each limb bytes 7 down to 0
commonU256(absorbing, x) ==
    absorbing \o [m \in 1..WordBytes |->
                    x[NbU64 - ((m - 1) \div U64Bytes)][U64Bytes - ((m - 1) % U64Bytes)]]

\* FillBytes writing the least significant byte first
FillBytesLittleEndian(x) == x.val

\* challengeInitScalar.FillBytes(make([]byte, 32)): |x| big-endian
FillBytes(x) == Reverse(x.val)

\* opSeq with the evaluation scalars of round 4 absorbed before x is
\* squeezed: the scalars are given their own row ahead of the squeeze
opSeqEvalsFirst(cfg) ==
    << <<cfg.NbAdvices, 1, 0>>,
       <<cfg.NbLookupsM, 2, 0>>,
       <<cfg.NbPermutationGroups + cfg.NbLookupsZs + 1, 1, 0>>,
       <<cfg.Degree, 0, cfg.NbEvals>>,
       <<0, 3, 0>>,
       <<1, 1, 0>>,
       <<1, 0, 0>> >>

\* opSeq without the point absorbed before the last squeeze
opSeqNoW(cfg) ==
    << <<cfg.NbAdvices, 1, 0>>,
       <<cfg.NbLookupsM, 2, 0>>,
       <<cfg.NbPermutationGroups + cfg.NbLookupsZs + 1, 1, 0>>,
       <<cfg.Degree, 1, cfg.NbEvals>>,
       <<0, 2, 0>>,
       <<0, 1, 0>>,
       <<2, 0, 0>> >>

\* opSeq with a single challenge squeezed after the evaluation scalars
opSeqSingleV(cfg) ==
    << <<cfg.NbAdvices, 1, 0>>,
       <<cfg.NbLookupsM, 2, 0>>,
       <<cfg.NbPermutationGroups + cfg.NbLookupsZs + 1, 1, 0>>,
       <<cfg.Degree, 1, cfg.NbEvals>>,
       <<0, 1, 0>>,
       <<1, 1, 0>>,
       <<1, 0, 0>> >>

\* opSeq: (points to absorb, challenges to squeeze, scalars to absorb) per row
opSeq(cfg) ==
    << <<cfg.NbAdvices, 1, 0>>,
       <<cfg.NbLookupsM, 2, 0>>,
       <<cfg.NbPermutationGroups + cfg.NbLookupsZs + 1, 1, 0>>,
       <<cfg.Degree, 1, cfg.NbEvals>>,
       <<0, 2, 0>>,
       <<1, 1, 0>>,
       <<1, 0, 0>> >>

RECURSIVE Advance(_, _)
\* the next loop position (row i, inner loop ph, counter j) at which a loop
\* body runs; i > Len(ops) when the loops are over
Advance(ops, pos) ==
    IF pos.i > Len(ops) THEN pos
    ELSE IF pos.j < ops[pos.i][pos.ph] THEN pos
    ELSE IF pos.ph < 3 THEN Advance(ops, [i |-> pos.i, ph |-> pos.ph + 1, j |-> 0])
    ELSE Advance(ops, [i |-> pos.i + 1, ph |-> 1, j |-> 0])

StartPos == [i |-> 1, ph |-> 1, j |-> 0]

Step(ops, pos) == Advance(ops, [i |-> pos.i, ph |-> pos.ph, j |-> pos.j + 1])

(* -------------------------------- state ------------------------------- *)

VARIABLES
    config,               \* Halo2VerifierCircuit.config
    curveID,              \* the native curve main compiles for
    Instance,             \* Halo2VerifierCircuit.Instance
    Transcript,           \* Halo2VerifierCircuit.Transcript
    pc,                   \* the stage of Define that runs next
    err,                  \* the error Define returned, or the panic raised
    decoded,              \* Define's transcript, the result of proofToU256
    instanceCommitments,  \* Define's instanceCommitments
    transcript,           \* getChallengesShPlonkCircuit's transcript slice
    absorbing,            \* the absorbing buffer
    challenges,
    commitments,
    evals,
    opPos,                \* the position in the loops over opSeq
    cs,                   \* the constraints emitted into the builder, in order
    log,                  \* the calls made, in order
    pairingInput,         \* the arguments of PairingCheck
    mpc,                  \* main: the step that runs next
    flags,                \* main: the -backendID and -curveID strings
    proofData,            \* main: halo2_verifier_proof.json as loaded
    compiled,             \* Compile: the results of its frontend.Compile calls
    ccs,                  \* main: the constraint system Compile returned (0: none)
    merr,                 \* main: the error it stopped with
    witnessCircuit,       \* main: the assignment built from proofData
    mlog,                 \* main: the steps taken, in order
    keys,                 \* main: pk, vk (the prover they were made for, their type)
    files,                \* the key files written under gnark_setup
    call,                 \* a function of the circuit library and its arguments
    result                \* what the function returned

\* the state of Define
circuit == <<config, curveID, Instance, Transcript, pc, err, decoded, instanceCommitments,
             transcript, absorbing, challenges, commitments, evals, opPos, cs, log,
             pairingInput>>

\* the state of main around it
harness == <<mpc, flags, proofData, compiled, ccs, merr, witnessCircuit, mlog, keys, files>>

fn == <<call, result>>
vars == <<circuit, harness, fn>>

inputs == <<config, curveID, Instance, Transcript>>

engine == <<transcript, absorbing, challenges, commitments, evals, opPos>>

\* NewHalo2VerifierAPI that keeps no Lagrange commitments
NewHalo2VerifierAPIEmpty(cfg) == [config |-> [cfg EXCEPT !.VerifyCircuitGLagrange = <<>>]]

\* NewHalo2VerifierAPI(config, ...): the API value whose methods Define
\* calls; config is the field they read, and what it holds after a call
NewHalo2VerifierAPI(cfg) == [config |-> cfg]

\* the number of words of the decoded transcript consumed so far
Consumed == Len(decoded) - Len(transcript)

(* ------------------------------- actions ------------------------------ *)

\* Define, line 138: the word codec
ProofToU256 ==
    /\ pc = "proofToU256"
    /\ \E r \in {proofToU256(Transcript)} :
           /\ decoded' = r.words
           /\ err' = Errorf(r.err, NoIndex, <<>>)
           /\ pc' = IF r.err # "" THEN "returned"
                    ELSE IF Len(Instance) = 0 THEN "getChallenges"
                    ELSE "calcInstanceCommitment"
           /\ cs' = IF r.err # "" THEN cs
                    ELSE cs \o <<[kind |-> "ByteValueOf", arg |-> <<Len(Transcript)>>]>>
           /\ log' = Append(log, Event("proofToU256", 0, 0, <<>>))
    /\ config' = NewHalo2VerifierAPI(config).config
    /\ UNCHANGED <<fn, harness, curveID, Instance, Transcript, instanceCommitments, engine, pairingInput>>

\* Define, lines 145-150: one turn of the loop over the instance groups
CalcInstanceCommitment ==
    /\ pc = "calcInstanceCommitment"
    /\ \E i \in {Len(instanceCommitments)} :
       \E r \in {calcInstanceCommitment(config, curveID, Instance[i + 1])} :
           /\ cs' = cs \o r.asserts
           /\ log' = Append(log, Event("calcInstanceCommitment", i, 0, <<>>)) \o r.ops
           /\ IF r.status = "ok"
              THEN /\ instanceCommitments' = Append(instanceCommitments, r.point)
                   /\ err' = err
                   /\ pc' = IF i + 1 = Len(Instance) THEN "getChallenges"
                            ELSE "calcInstanceCommitment"
              ELSE /\ instanceCommitments' = instanceCommitments
                   /\ err' = r.err
                   /\ pc' = IF r.status = "panic" THEN "panicked" ELSE "returned"
    /\ config' = NewHalo2VerifierAPI(config).config
    /\ UNCHANGED <<fn, harness, curveID, Instance, Transcript, decoded, engine, pairingInput>>

RECURSIVE commonInstances(_, _, _)
\* getChallengesShPlonkCircuit, lines 105-108
commonInstances(buf, points, i) ==
    IF i > Len(points) THEN buf
    ELSE commonInstances(
            commonU256(commonU256(buf, BN254FpToU256(Coord(points[i], 0))),
                       BN254FpToU256(Coord(points[i], 1))),
            points, i + 1)

\* getChallengesShPlonkCircuit, lines 88-108: the seed of the buffer
GetChallengesInit ==
    /\ pc = "getChallenges"
    /\ \E x \in {SetString(config.ChallengeInitScalar)} :
           IF ~x.ok
           THEN /\ err' = Errorf("invalid ChallengeInitScalar", NoIndex, config.ChallengeInitScalar)
                /\ pc' = "returned"
                /\ UNCHANGED <<engine, log>>
           ELSE IF x.over
           THEN /\ err' = Errorf("math/big: buffer too small to fit value", NoIndex, <<>>)
                /\ pc' = "panicked"
                /\ UNCHANGED <<engine, log>>
           ELSE /\ absorbing' = commonInstances(FillBytes(x), instanceCommitments, 1)
                /\ transcript' = decoded
                /\ opPos' = Advance(opSeq(config), StartPos)
                /\ pc' = "opSeq"
                /\ log' = Append(log, Event("seed", 0, 0, FillBytes(x)))
                /\ UNCHANGED <<err, challenges, commitments, evals>>
    /\ config' = NewHalo2VerifierAPI(config).config
    /\ UNCHANGED <<fn, harness, curveID, Instance, Transcript, decoded, instanceCommitments, cs, pairingInput>>

\* commonPoint, called at line 122
CommonPoint ==
    /\ pc = "opSeq"
    /\ opPos.i <= Len(opSeq(config))
    /\ opPos.ph = 1
    /\ IF Len(transcript) < 2
       THEN /\ pc' = "panicked"
            /\ err' = Errorf("index out of range", Len(transcript), <<>>)
            /\ UNCHANGED <<engine, cs, log>>
       ELSE \E p \in {AssertOnCurve(transcript[1], transcript[2])} :
            \E b1 \in {commonU256(absorbing, transcript[1])} :
            \E b2 \in {commonU256(b1, transcript[2])} :
                /\ cs' = cs \o p.constraints
                /\ commitments' = Append(commitments, p.point)
                /\ absorbing' = b2
                /\ transcript' = SubSeq(transcript, 3, Len(transcript))
                /\ log' = log \o << Event("AssertOnCurve", opPos.i, Consumed, <<>>),
                                    Event("commonU256", opPos.i, Consumed,
                                          SubSeq(b1, Len(absorbing) + 1, Len(b1))),
                                    Event("commonU256", opPos.i, Consumed + 1,
                                          SubSeq(b2, Len(b1) + 1, Len(b2))) >>
                /\ opPos' = Step(opSeq(config), opPos)
                /\ UNCHANGED <<pc, err, challenges, evals>>
    /\ config' = NewHalo2VerifierAPI(config).config
    /\ UNCHANGED <<fn, harness, curveID, Instance, Transcript, decoded, instanceCommitments, pairingInput>>

\* squeezeChallenge, called at line 126
SqueezeChallenge ==
    /\ pc = "opSeq"
    /\ opPos.i <= Len(opSeq(config))
    /\ opPos.ph = 2
    /\ \E r \in {squeezeChallenge(absorbing, curveID)} :
           /\ absorbing' = r.absorbing
           /\ challenges' = Append(challenges, r.challenge)
           /\ log' = Append(log, Event("squeezeChallenge", opPos.i, Consumed, r.hashed))
    /\ opPos' = Step(opSeq(config), opPos)
    /\ config' = NewHalo2VerifierAPI(config).config
    /\ UNCHANGED <<fn, harness, curveID, Instance, Transcript, pc, err, decoded, instanceCommitments, transcript, commitments,
                   evals, cs, pairingInput>>

\* commonScalar taking two words off the transcript
commonScalarTwoWords(buf, words) ==
    [absorbing |-> commonU256(buf, words[1]),
     transcript |-> SubSeq(words, 3, Len(words))]

\* commonScalar: absorb (*transcript)[0], then *transcript = (*transcript)[1:]
commonScalar(buf, words) ==
    [absorbing |-> commonU256(buf, words[1]),
     transcript |-> SubSeq(words, 2, Len(words))]

\* lines 133-134: the evaluation claim, then commonScalar
CommonScalar ==
    /\ pc = "opSeq"
    /\ opPos.i <= Len(opSeq(config))
    /\ opPos.ph = 3
    /\ IF Len(transcript) < 1
       THEN /\ pc' = "panicked"
            /\ err' = Errorf("index out of range", 0, <<>>)
            /\ UNCHANGED <<engine, log>>
       ELSE \E r \in {commonScalar(absorbing, transcript)} : \E b1 \in {r.absorbing} :
                /\ evals' = Append(evals, ToValue(transcript[1], ScalarField(curveID)))
                /\ absorbing' = b1
                /\ transcript' = r.transcript
                /\ log' = log \o << Event("commonScalar", opPos.i, Consumed, <<>>),
                                    Event("commonU256", opPos.i, Consumed,
                                          SubSeq(b1, Len(absorbing) + 1, Len(b1))) >>
                /\ opPos' = Step(opSeq(config), opPos)
                /\ UNCHANGED <<pc, err, challenges, commitments>>
    /\ config' = NewHalo2VerifierAPI(config).config
    /\ UNCHANGED <<fn, harness, curveID, Instance, Transcript, decoded, instanceCommitments, cs, pairingInput>>

\* line 138: the engine returns its three lists
GetChallengesReturn ==
    /\ pc = "opSeq"
    /\ opPos.i > Len(opSeq(config))
    /\ pc' = "verify"
    /\ log' = Append(log, Event("return", 0, Consumed, <<>>))
    /\ config' = NewHalo2VerifierAPI(config).config
    /\ UNCHANGED <<fn, harness, curveID, Instance, Transcript, err, decoded, instanceCommitments, engine, cs, pairingInput>>

\* Define, line 157: the assembler; its two points are terms over what it is given
Verify ==
    /\ pc = "verify"
    /\ pairingInput' = [p1 |-> [op |-> "verify.p1", challenges |-> challenges,
                                commitments |-> commitments, evals |-> evals,
                                instanceCommitments |-> instanceCommitments],
                        p2 |-> [op |-> "verify.p2", challenges |-> challenges,
                                commitments |-> commitments, evals |-> evals,
                                instanceCommitments |-> instanceCommitments],
                        g2 |-> <<>>]
    /\ pc' = "pairing"
    /\ log' = Append(log, Event("verify", 0, 0, <<>>))
    /\ config' = NewHalo2VerifierAPI(config).config
    /\ UNCHANGED <<fn, harness, curveID, Instance, Transcript, err, decoded, instanceCommitments, engine, cs>>

\* the G2 points that are on the curve, among those a Config here may hold
\* (g.IsOnCurve() is gnark-crypto's; the curve is this set of points)
G2OnCurve ==
    { << <<"1">>, <<"2">>, <<"3">>, <<"4">> >>,
      << <<"5">>, <<"6">>, <<"7">>, <<"8">> >>,
      << <<"9">>, <<"8">>, <<"7">>, <<"6">> >> }

\* g.IsOnCurve() of gnark-crypto on a configured G2 point
G2IsOnCurve(g) == g \in G2OnCurve

\* the four coordinates g.X.SetString, g.Y.SetString leave in g; a string
\* that is no number leaves zero when the library does not panic on it
G2Coordinates(g) == [c \in 1..4 |-> IF SetString(g[c]).ok THEN g[c] ELSE <<"0">>]

\* GetVerifyCircuitsG2Affine that takes the last two points of Config
GetVerifyCircuitsG2AffineLast(cfg, strict) ==
    LET g == cfg.VerifyCircuitG2Affine
    IN  IF Len(g) >= 2 /\ \A i \in 1..2 : G2IsOnCurve(g[i])
        THEN [status |-> "ok", err |-> Nil, points |-> SubSeq(g, Len(g) - 1, Len(g))]
        ELSE [status |-> "panic", err |-> Errorf("invalid g2", NoIndex, <<>>), points |-> <<>>]

\* GetVerifyCircuitsG2Affine; strict: the library's Element.SetString panics
\* on a string that is no number (otherwise it leaves the element zero)
GetVerifyCircuitsG2Affine(cfg, strict) ==
    LET g == cfg.VerifyCircuitG2Affine
        short == { i \in 1..2 : Len(g) < i \/ Len(g[i]) < 4 }
        first == CHOOSE i \in 1..3 : (i = 3 \/ i \in short) /\ \A k \in 1..(i - 1) : k \notin short
        upto == first - 1
        noNumber == { i \in 1..upto : \E c \in 1..4 : ~SetString(g[i][c]).ok }
        offCurve == { i \in 1..upto : ~G2IsOnCurve(G2Coordinates(g[i])) }
        stop == (IF strict THEN noNumber ELSE {}) \cup offCurve
    IN  IF stop # {}
        THEN LET i == CHOOSE k \in stop : \A m \in stop : k <= m
             IN  IF strict /\ i \in noNumber
                 THEN [status |-> "panic",
                       err |-> Errorf("Element.SetString failed", NoIndex,
                                      g[i][CHOOSE c \in 1..4 : ~SetString(g[i][c]).ok
                                               /\ \A d \in 1..(c - 1) : SetString(g[i][d]).ok]),
                       points |-> <<>>]
                 ELSE [status |-> "panic", err |-> Errorf("invalid g2", NoIndex, <<>>),
                       points |-> <<>>]
        ELSE IF first < 3
        THEN [status |-> "panic", err |-> Errorf("index out of range", NoIndex, <<>>),
              points |-> <<>>]
        ELSE [status |-> "ok", err |-> Nil, points |-> SubSeq(g, 1, 2)]

\* Define, lines 158-175: the G2 points of Config and the pairing check
PairingCheck ==
    /\ pc = "pairing"
    /\ \E strict \in BOOLEAN :
       \E r \in {GetVerifyCircuitsG2Affine(config, strict)} :
           IF r.status # "ok"
           THEN /\ pc' = "panicked"
                /\ err' = r.err
                /\ log' = Append(log, Event("GetVerifyCircuitsG2Affine", 0, 0, <<>>))
                /\ UNCHANGED <<cs, pairingInput>>
           ELSE /\ pairingInput' = [pairingInput EXCEPT !.g2 = r.points]
                /\ cs' = Append(cs, [kind |-> "PairingCheck", arg |-> <<>>])
                /\ pc' = "returned"
                /\ err' = Nil
                /\ log' = log \o << Event("GetVerifyCircuitsG2Affine", 0, 0, <<>>),
                                    Event("PairingCheck", 0, 0, <<>>) >>
    /\ config' = NewHalo2VerifierAPI(config).config
    /\ UNCHANGED <<fn, harness, curveID, Instance, Transcript, decoded, instanceCommitments, engine>>

Next ==
    \/ ProofToU256
    \/ CalcInstanceCommitment
    \/ GetChallengesInit
    \/ CommonPoint
    \/ SqueezeChallenge
    \/ CommonScalar
    \/ GetChallengesReturn
    \/ Verify
    \/ PairingCheck

(* ------------------------------- inputs ------------------------------- *)

\* the number of words getChallengesShPlonkCircuit consumes: two per point,
\* one per scalar
RECURSIVE WordsOf(_, _)
WordsOf(ops, i) == IF i > Len(ops) THEN 0 ELSE 2 * ops[i][1] + ops[i][3] + WordsOf(ops, i + 1)

\* entry i of verify_circuit_g_lagrange; a malformed x or y when bad says so
LagrangeEntry(i, bad) ==
    << IF bad = <<i, 1>> THEN <<"1", "x">> ELSE <<Digits[(i % 9) + 2]>>,
       IF bad = <<i, 2>> THEN <<>> ELSE <<"2">> >>

Lagrange(n, bad) == [i \in 1..n |-> LagrangeEntry(i, bad)]

G2Affine == << << <<"1">>, <<"2">>, <<"3">>, <<"4">> >>, << <<"5">>, <<"6">>, <<"7">>, <<"8">> >> >>

\* a Config with the six counts c, the init scalar s and n Lagrange commitments
ConfigOf(c, s, n, bad) ==
    [VerifyCircuitGLagrange |-> Lagrange(n, bad),
     VerifyCircuitG2Affine  |-> G2Affine,
     ChallengeInitScalar    |-> s,
     Degree                 |-> c[1],
     NbAdvices              |-> c[2],
     NbLookupsM             |-> c[3],
     NbLookupsZs            |-> c[4],
     NbPermutationGroups    |-> c[5],
     NbEvals                |-> c[6]]

Counts == {c \in [1..6 -> 0..MaxTotal] : c[1] + c[2] + c[3] + c[4] + c[5] + c[6] <= MaxTotal}

\* the decimal string of n digits 7 4 1 8 5 2 9 6 3 0 7 ...
LongScalar(n) == [i \in 1..n |-> Digits[((i * 7) % 10) + 1]]

InitScalars ==
    { <<"0">>, <<"2", "5", "8">>, <<"-", "7">>, <<"1", "x">>, <<>>, LongScalar(77), LongScalar(78) }

\* the bytes of a proof of n elements
ProofBytes(n) == [k \in 1..n |-> ((k - 1) * 7 + 5) % 256]

\* the scalars of instance group g
InstanceGroup(g, n) == [i \in 1..n |-> BigOf(16 * g + i)]

InstancesOf(sizes) == [g \in 1..Len(sizes) |-> InstanceGroup(g, sizes[g])]

Scenario(cfg, curve, sizes, nbytes) ==
    [config |-> cfg, curveID |-> curve, Instance |-> InstancesOf(sizes),
     Transcript |-> ProofBytes(nbytes)]

NoBad == <<0, 0>>

\* every Config shape, with transcripts that are too short, exact, too long
\* and not a whole number of words
ShapeScenarios ==
    { Scenario(ConfigOf(c, <<"5">>, 1, NoBad), "BN254", <<1>>,
               WordBytes * (WordsOf(opSeq(ConfigOf(c, <<"5">>, 1, NoBad)), 1) + d.words) + d.bytes) :
        c \in Counts,
        d \in { [words |-> w, bytes |-> 0] : w \in (0 - MaxMissing)..MaxSurplus }
              \cup { [words |-> 0, bytes |-> 1], [words |-> 0 - 1, bytes |-> 31] } }

GroupSizes == { <<>> } \cup { <<n>> : n \in 0..MaxInstances }
              \cup { <<n, m>> : n \in 1..MaxInstances, m \in 0..MaxInstances }

ZeroCounts == [i \in 1..6 |-> 0]

\* instance groups of every size against Lagrange lists of every length
InstanceScenarios ==
    { Scenario(ConfigOf(ZeroCounts, <<"5">>, n, bad), "BN254", sizes,
               WordBytes * WordsOf(opSeq(ConfigOf(ZeroCounts, <<"5">>, n, bad)), 1)) :
        n \in 1..MaxInstances,
        bad \in { NoBad } \cup { <<i, xy>> : i \in 1..MaxInstances, xy \in 1..2 },
        sizes \in GroupSizes }

OneEach == [i \in 1..6 |-> IF i \in {1, 2, 6} THEN 1 ELSE 0]

\* every init scalar on both native curves
ScalarScenarios ==
    { Scenario(ConfigOf(OneEach, s, 1, NoBad), curve, <<1>>,
               WordBytes * WordsOf(opSeq(ConfigOf(OneEach, s, 1, NoBad)), 1)) :
        s \in InitScalars, curve \in {"BN254", "BLS12_381"} }

\* the lists verify_circuit_g2 may hold: two or three points, a point off
\* the curve, a coordinate that is no number, a missing coordinate or point
G2Lists ==
    { G2Affine,
      Append(G2Affine, << <<"9">>, <<"8">>, <<"7">>, <<"6">> >>),
      << G2Affine[1], << <<"5">>, <<"6">>, <<"7">>, <<"9">> >> >>,
      << << <<"1">>, <<"2", "x">>, <<"3">>, <<"4">> >>, G2Affine[2] >>,
      << G2Affine[1], << <<"5">>, <<"6">>, <<"7">> >> >>,
      << G2Affine[1] >> }

G2Scenarios ==
    { Scenario([ConfigOf(ZeroCounts, <<"5">>, 1, NoBad) EXCEPT !.VerifyCircuitG2Affine = g],
               "BN254", <<1>>, WordBytes * WordsOf(opSeq(ConfigOf(ZeroCounts, <<"5">>, 1, NoBad)), 1)) :
        g \in G2Lists }

Scenarios == ShapeScenarios \cup InstanceScenarios \cup ScalarScenarios \cup G2Scenarios

\* no function is looked at on its own
FnIdle ==
    /\ call = [fn |-> ""]
    /\ result = [fn |-> ""]

\* pk, vk before Setup
NoKeys == [prover |-> "", kind |-> ""]

\* main is not running: Define is looked at on its own
HarnessIdle ==
    /\ mpc = "idle"
    /\ flags = [backendID |-> "", curveID |-> ""]
    /\ proofData = [Instance |-> <<>>, Transcript |-> <<>>]
    /\ compiled = <<>>
    /\ ccs = 0
    /\ merr = ""
    /\ witnessCircuit = [Instance |-> <<>>, Transcript |-> <<>>]
    /\ mlog = <<>>
    /\ keys = NoKeys
    /\ files = {}

Init ==
    /\ \E sc \in Scenarios :
        /\ config = sc.config
        /\ curveID = sc.curveID
        /\ Instance = sc.Instance
        /\ Transcript = sc.Transcript
    /\ pc = "proofToU256"
    /\ err = Nil
    /\ decoded = <<>>
    /\ instanceCommitments = <<>>
    /\ transcript = <<>>
    /\ absorbing = <<>>
    /\ challenges = <<>>
    /\ commitments = <<>>
    /\ evals = <<>>
    /\ opPos = StartPos
    /\ cs = <<>>
    /\ log = <<>>
    /\ pairingInput = [p1 |-> <<>>, p2 |-> <<>>, g2 |-> <<>>]
    /\ HarnessIdle
    /\ FnIdle

Spec == Init /\ [][Next]_vars

(* -------------------------------- main -------------------------------- *)

\* frontend.Compile may return up to MaxSystems different constraint systems
MaxSystems == 2

\* what one call of frontend.Compile (the library, running Define) can
\* return: an error, or one of the constraint systems 1 .. MaxSystems
CompileResults ==
    { [err |-> "parse circuit", cs |-> 0] } \cup { [err |-> "", cs |-> c] : c \in 1..MaxSystems }

parseBackendID(backendIDString) ==
    IF backendIDString \in {"PLONK", "GROTH16"}
    THEN [id |-> backendIDString, err |-> ""]
    ELSE [id |-> "", err |-> "unsupported backend ID"]

parseCurveID(curveIDString) ==
    IF curveIDString \in {"BN254", "BLS12_381"}
    THEN [id |-> curveIDString, err |-> ""]
    ELSE [id |-> "", err |-> "unsupported curve ID"]

\* Compile that returns the first constraint system without comparing the two
CompileUnchecked(backendID, first, second) ==
    IF backendID \notin {"GROTH16", "PLONK"}
    THEN [panic |-> "not implemented", ccs |-> 0, err |-> "", calls |-> <<>>]
    ELSE IF first.err # ""
    THEN [panic |-> "", ccs |-> 0, err |-> first.err, calls |-> <<first>>]
    ELSE [panic |-> "", ccs |-> first.cs, err |-> "", calls |-> <<first, second>>]

\* Compile: first and second are what the two frontend.Compile calls return
\* (the second is made only when the first succeeded); calls: those made
Compile(backendID, first, second) ==
    IF backendID \notin {"GROTH16", "PLONK"}
    THEN [panic |-> "not implemented", ccs |-> 0, err |-> "", calls |-> <<>>]
    ELSE IF first.err # ""
    THEN [panic |-> "", ccs |-> 0, err |-> first.err, calls |-> <<first>>]
    ELSE IF second.err # ""
    THEN [panic |-> "", ccs |-> 0, err |-> "compilation is not deterministic",
          calls |-> <<first, second>>]
    ELSE IF first.cs # second.cs
    THEN [panic |-> "", ccs |-> 0, err |-> "compilation is not deterministic",
          calls |-> <<first, second>>]
    ELSE [panic |-> "", ccs |-> first.cs, err |-> "", calls |-> <<first, second>>]

\* main, lines 53-74: the flags
ParseFlags ==
    /\ mpc = "flags"
    /\ \E b \in {parseBackendID(flags.backendID)} :
       \E c \in {parseCurveID(flags.curveID)} :
           IF b.err # ""
           THEN mpc' = "fatal" /\ merr' = "Invalid backendID"
           ELSE IF c.err # ""
           THEN mpc' = "fatal" /\ merr' = "Invalid curveID"
           ELSE mpc' = "load" /\ merr' = merr
    /\ mlog' = Append(mlog, "flags")
    /\ UNCHANGED <<fn, circuit, flags, proofData, compiled, ccs, witnessCircuit, keys, files>>

\* main, lines 71-79: the two JSON files are read; a failure panics
LoadInputs ==
    /\ mpc = "load"
    /\ \E ok \in BOOLEAN :
           IF ok THEN mpc' = "compile" /\ merr' = merr
           ELSE mpc' = "panicked" /\ merr' = "load"
    /\ mlog' = Append(mlog, "load")
    /\ UNCHANGED <<fn, circuit, flags, proofData, compiled, ccs, witnessCircuit, keys, files>>

\* main, lines 81-100: the circuit of the shapes of proofData is compiled
MainCompile ==
    /\ mpc = "compile"
    /\ \E first \in CompileResults : \E second \in CompileResults :
       \E r \in {Compile(parseBackendID(flags.backendID).id, first, second)} :
           /\ compiled' = r.calls
           /\ ccs' = r.ccs
           /\ IF r.panic # "" THEN mpc' = "panicked" /\ merr' = r.panic
              ELSE IF r.err # "" THEN mpc' = "panicked" /\ merr' = r.err
              ELSE mpc' = "setup" /\ merr' = merr
    /\ mlog' = Append(mlog, "Compile")
    /\ UNCHANGED <<fn, circuit, flags, proofData, witnessCircuit, keys, files>>

\* the paths of the key files
Groth16PkPath == "gnark_setup/groth16_pk"
Groth16VkPath == "gnark_setup/groth16_vk"
PlonkPkPath == "gnark_setup/plonk_pk"
PlonkVkPath == "gnark_setup/plonk_vk"

\* SavePkVk(pk, vk, id): the two files it creates, with the keys written
SavePkVk(kind, id) ==
    IF id = "GROTH16"
    THEN [panic |-> "", written |-> {[path |-> Groth16PkPath, key |-> "pk", kind |-> kind],
                                     [path |-> Groth16VkPath, key |-> "vk", kind |-> kind]}]
    ELSE IF id = "PLONK"
    THEN [panic |-> "", written |-> {[path |-> PlonkPkPath, key |-> "pk", kind |-> kind],
                                     [path |-> PlonkVkPath, key |-> "vk", kind |-> kind]}]
    ELSE [panic |-> "unhandled default case", written |-> {}]

\* ReadPkVk(id, curveID): the two files it opens and the key objects it
\* reads them into
ReadPkVk(id) ==
    IF id = "GROTH16"
    THEN [panic |-> "", pkPath |-> Groth16PkPath, vkPath |-> Groth16VkPath, kind |-> "GROTH16"]
    ELSE IF id = "PLONK"
    THEN [panic |-> "", pkPath |-> Groth16PkPath, vkPath |-> Groth16VkPath, kind |-> "PLONK"]
    ELSE [panic |-> "unhandled default case", pkPath |-> "", vkPath |-> "", kind |-> ""]

\* GeneratePkVk(cs, prover); lib is what groth16.Setup / plonk.Setup (the
\* library's) does on cs: "ok", "error" (log.Fatalln) or "panic"
GeneratePkVk(prover, lib) ==
    IF prover \notin {"GROTH16", "PLONK"}
    THEN [status |-> "panic", keys |-> NoKeys, written |-> {}]
    ELSE IF lib = "error"
    THEN [status |-> "fatal", keys |-> NoKeys, written |-> {}]
    ELSE IF lib = "panic"
    THEN [status |-> "panic", keys |-> NoKeys, written |-> {}]
    ELSE [status |-> "ok", keys |-> [prover |-> prover, kind |-> prover],
          written |-> SavePkVk(prover, prover).written]

\* the prover GrothBackend.Setup (line 224) and PlonkBackend.Setup (line 242)
\* hand to GeneratePkVk
SetupProver(backendID) == "GROTH16"

\* main, lines 103-119: the backend is chosen and set up
Setup ==
    /\ mpc = "setup"
    /\ \E mkdir \in {"ok", "panic"} : \E lib \in {"ok", "error", "panic"} :
       \E r \in {GeneratePkVk(SetupProver(parseBackendID(flags.backendID).id), lib)} :
           IF mkdir = "panic"
           THEN /\ mpc' = "panicked" /\ merr' = "Mkdir"
                /\ UNCHANGED <<keys, files>>
           ELSE /\ keys' = [r.keys EXCEPT !.prover = SetupProver(parseBackendID(flags.backendID).id)]
                /\ files' = files \cup r.written
                /\ IF r.status = "ok" THEN mpc' = "fill" /\ merr' = merr
                   ELSE IF r.status = "fatal" THEN mpc' = "fatal" /\ merr' = "Setup"
                   ELSE mpc' = "panicked" /\ merr' = "Setup"
    /\ mlog' = Append(mlog, "Setup")
    /\ UNCHANGED <<fn, circuit, flags, proofData, compiled, ccs, witnessCircuit>>

\* big.NewInt(0).SetString(s, 10): the value, or nil
ParseVariable(s) == LET x == SetString(s) IN [nil |-> ~x.ok, val |-> x.val]

\* main, lines 128-153: every string of proofData is parsed; a failure
\* leaves nil in the assignment (the error made for it is discarded)
FillWitness ==
    /\ mpc = "fill"
    /\ witnessCircuit' =
          [Instance |-> [i \in 1..Len(proofData.Instance) |->
                           [j \in 1..Len(proofData.Instance[i]) |->
                              ParseVariable(proofData.Instance[i][j])]],
           Transcript |-> [i \in 1..Len(proofData.Transcript) |->
                             ParseVariable(proofData.Transcript[i])]]
    /\ mpc' = "newWitness"
    /\ mlog' = Append(mlog, "fill")
    /\ UNCHANGED <<fn, circuit, flags, proofData, compiled, ccs, merr, keys, files>>

\* an entry of the assignment is a nil *big.Int
HasNil(w) ==
    \/ \E i \in 1..Len(w.Instance) : \E j \in 1..Len(w.Instance[i]) : w.Instance[i][j].nil
    \/ \E i \in 1..Len(w.Transcript) : w.Transcript[i].nil

\* main, lines 155-159: frontend.NewWitness (the library's) succeeds or not;
\* on a nil *big.Int it returns an error or, in older versions, dereferences it
NewWitness ==
    /\ mpc = "newWitness"
    /\ \E out \in {"ok", "error", "nil dereference"} :
           /\ out = "nil dereference" => HasNil(witnessCircuit)
           /\ out = "ok" => ~HasNil(witnessCircuit)
           /\ IF out = "ok" THEN mpc' = "prove" /\ merr' = merr
              ELSE IF out = "error" THEN mpc' = "fatal" /\ merr' = "NewWitness"
              ELSE mpc' = "panicked" /\ merr' = "nil pointer dereference"
    /\ mlog' = Append(mlog, "NewWitness")
    /\ UNCHANGED <<fn, circuit, flags, proofData, compiled, ccs, witnessCircuit, keys, files>>

\* a type assertion that holds on every key
KeyAssertionAny(backendID, key) == TRUE

\* pk.(groth16.ProvingKey), vk.(plonk.VerifyingKey), ...: the type assertion
\* of the chosen backend on a key
KeyAssertion(backendID, key) == key.kind = backendID

\* main, lines 161-178: the proof is made by the chosen backend and written
Prove ==
    /\ mpc = "prove"
    /\ \E out \in {"ok", "fatal"} :
           IF ~KeyAssertion(parseBackendID(flags.backendID).id, keys)
           THEN mpc' = "panicked" /\ merr' = "interface conversion"
           ELSE IF out = "ok" THEN mpc' = "verify" /\ merr' = merr
           ELSE mpc' = "fatal" /\ merr' = "Prove"
    /\ mlog' = Append(mlog, "Prove")
    /\ UNCHANGED <<fn, circuit, flags, proofData, compiled, ccs, witnessCircuit, keys, files>>

\* main, lines 180-208: the public witness is written and the proof is
\* verified by the chosen backend
VerifyProof ==
    /\ mpc = "verify"
    /\ \E out \in {"ok", "fatal", "panic"} :
           IF ~KeyAssertion(parseBackendID(flags.backendID).id, keys)
           THEN mpc' = "panicked" /\ merr' = "interface conversion"
           ELSE IF out = "ok" THEN mpc' = "solidity" /\ merr' = merr
           ELSE IF out = "fatal" THEN mpc' = "fatal" /\ merr' = "Verify"
           ELSE mpc' = "panicked" /\ merr' = "Verify"
    /\ mlog' = Append(mlog, "Verify")
    /\ UNCHANGED <<fn, circuit, flags, proofData, compiled, ccs, witnessCircuit, keys, files>>

\* main, line 210: the Solidity verifier is exported and the call data printed
SolidityVerification ==
    /\ mpc = "solidity"
    /\ \E out \in {"ok", "fatal", "panic"} :
           IF out = "ok" THEN mpc' = "done" /\ merr' = merr
           ELSE IF out = "fatal" THEN mpc' = "fatal" /\ merr' = "SolidityVerification"
           ELSE mpc' = "panicked" /\ merr' = "SolidityVerification"
    /\ mlog' = Append(mlog, "SolidityVerification")
    /\ UNCHANGED <<fn, circuit, flags, proofData, compiled, ccs, witnessCircuit, keys, files>>

MainNext ==
    \/ ParseFlags
    \/ LoadInputs
    \/ MainCompile
    \/ Setup
    \/ FillWitness
    \/ NewWitness
    \/ Prove
    \/ VerifyProof
    \/ SolidityVerification

\* the decimal strings of halo2_verifier_proof.json
InstanceInputs ==
    { <<>>,
      << <<LongScalar(3)>> >>,
      << <<LongScalar(2), <<"1", "x">>>> >>,
      << << <<"9">> >>, << <<>>, <<"4">> >> >> }

TranscriptInputs ==
    { <<>>,
      << <<"5">>, <<"2", "2", "2">> >>,
      << <<"5">>, <<"0", "x", "f">> >> }

\* Define has not started (main only compiles it through the library)
DefineIdle ==
    /\ \E sc \in {Scenario(ConfigOf(ZeroCounts, <<"5">>, 1, NoBad), "BN254", <<1>>, 0)} :
        /\ config = sc.config
        /\ curveID = sc.curveID
        /\ Instance = sc.Instance
        /\ Transcript = sc.Transcript
    /\ pc = "proofToU256"
    /\ err = Nil
    /\ decoded = <<>>
    /\ instanceCommitments = <<>>
    /\ transcript = <<>>
    /\ absorbing = <<>>
    /\ challenges = <<>>
    /\ commitments = <<>>
    /\ evals = <<>>
    /\ opPos = StartPos
    /\ cs = <<>>
    /\ log = <<>>
    /\ pairingInput = [p1 |-> <<>>, p2 |-> <<>>, g2 |-> <<>>]

MainInit ==
    /\ DefineIdle
    /\ mpc = "flags"
    /\ flags \in [backendID : {"GROTH16", "PLONK", "MARLIN"},
                  curveID : {"BN254", "BLS12_381", "BW6_761"}]
    /\ proofData \in [Instance : InstanceInputs, Transcript : TranscriptInputs]
    /\ compiled = <<>>
    /\ ccs = 0
    /\ merr = ""
    /\ witnessCircuit = [Instance |-> <<>>, Transcript |-> <<>>]
    /\ mlog = <<>>
    /\ keys = NoKeys
    /\ files = {}
    /\ FnIdle

MainSpec == MainInit /\ [][MainNext]_vars

(* ------------------------------ functions ----------------------------- *)

\* ScalarPow is applied in the integers modulo SmallField, which stand for
\* the native field (its products stay below 2^31)
SmallField == 46337

\* the largest exponent ScalarPow is applied to
MaxExp == 12

\* api.Mul
Mul(a, b) == (a * b) % SmallField

RECURSIVE ScalarPowLoop(_, _, _, _, _)
\* the loop of ScalarPow; muls counts the calls of api.Mul, iterations the
\* turns of the loop
ScalarPowLoop(acc, base, n, muls, iterations) ==
    IF n > 0
    THEN ScalarPowLoop(IF n % 2 = 1 THEN Mul(acc, base) ELSE acc,
                       Mul(base, base),
                       n \div 2,
                       muls + (IF n % 2 = 1 THEN 2 ELSE 1),
                       iterations + 1)
    ELSE [value |-> acc, muls |-> muls, iterations |-> iterations]

\* ScalarPow whose acc starts as x
ScalarPowFromX(x, n) == ScalarPowLoop(x, x, n, 0, 0)

\* ScalarPow(api, x, n): acc starts as the constant 1, base as x
ScalarPow(x, n) == ScalarPowLoop(1 % SmallField, x, n, 0, 0)

\* BN254ScalarMul: the scalar through ToBn254Fr, the product is a term
BN254ScalarMul(point, scalar, curve) ==
    LET fr == ToBn254Fr(scalar, curve)
    IN  [point |-> [op |-> "ScalarMul", base |-> point, scalar |-> fr.element],
         asserts |-> fr.asserts]

\* ToU256Hint: the 32 bytes of x most significant first; output i is the
\* number of bytes 8i .. 8i+7 (held as its 8 bytes, least significant first)
ToU256Hint(x) ==
    LET bytes == Reverse(x)
    IN  [i \in 1..NbU64 |-> [k \in 1..U64Bytes |-> bytes[(i - 1) * U64Bytes + (U64Bytes + 1 - k)]]]

\* ToU256: sum = u64Arr[0] + u64Arr[1] * 2^64 + u64Arr[2] * 2^128 +
\* u64Arr[3] * 2^192 in the native field, asserted equal to x; the U256 has
\* u64Arr[i] as limb i
ToU256(x, q) ==
    LET u64Arr == ToU256Hint(x)
        sum == FieldReduce(DigitsOf(u64Arr), q)
    IN  [word |-> u64Arr, asserts |-> <<[kind |-> "AssertIsEqual", arg |-> <<sum, x>>]>>]

\* U256FromBits (lines 101-104): the slice of the bits each limb is made of
U256FromBitsSlices == << <<0, 64>>, <<64, 128>>, <<128, 196>>, <<196, 256>> >>

\* the number 2^b as a Big
PowerOfTwo(b) == [i \in 1..WordBytes |-> IF i = (b \div 8) + 1 THEN 2 ^ (b % 8) ELSE 0]

PowBases == {0, 1, 2, 3, 12345, SmallField - 1}

\* variables of the native field of a curve: small ones, the largest, and
\* powers of two up to the highest below the modulus
NativeScalars(curve) ==
    { BigOf(5), PowerOfTwo(64), PowerOfTwo(253), BigSub(ScalarField(curve), BigOf(1)) }
    \cup (IF curve = "BLS12_381" THEN {PowerOfTwo(254)} ELSE {BigOf(1)})

G1Constant == <<BigOf(1), BigOf(2)>>

(* ------------------------ Solidity instance folding ------------------- *)

MaxCommitments == 2

\* The precompiles 6 (point addition) and 7 (scalar multiplication) are the
\* EVM's. They are modelled on a group of prime order GroupOrder: the point
\* k * G has the coordinates (k, GroupOrder + 1 - k), the point at infinity
\* (0, 0); any other pair of words is not a point and makes the call fail
GroupOrder == 11

G1Encode(k) == IF k = 0 THEN <<0, 0>> ELSE <<k, GroupOrder + 1 - k>>

G1Valid(x, y) == x \in 0..(GroupOrder - 1) /\ <<x, y>> = G1Encode(x)

\* staticcall(gas(), 7, ...) on the words (x, y, s)
ecMul(x, y, s) ==
    IF G1Valid(x, y) THEN [ret |-> TRUE, out |-> G1Encode((x * s) % GroupOrder)]
    ELSE [ret |-> FALSE, out |-> <<0, 0>>]

\* staticcall(gas(), 6, ...) on the words (x1, y1, x2, y2)
ecAdd(x1, y1, x2, y2) ==
    IF G1Valid(x1, y1) /\ G1Valid(x2, y2)
    THEN [ret |-> TRUE, out |-> G1Encode((x1 + x2) % GroupOrder)]
    ELSE [ret |-> FALSE, out |-> <<0, 0>>]

RECURSIVE msmLoop(_, _, _, _)
\* the loop of AggregatorLib.msm at pos; mem is the memory from the first
\* word of input on (word w of the code is mem[w + 1]), reads the words the
\* precompiles were given so far
msmLoop(mem, offset, pos, acc) ==
    IF pos = 0 THEN [reverted |-> FALSE, mem |-> mem, reads |-> acc.reads,
                     muls |-> acc.muls, adds |-> acc.adds]
    ELSE LET b == offset + 3 * pos - 3
             m == ecMul(mem[b + 1], mem[b + 2], mem[b + 3])
             mem1 == [mem EXCEPT ![b + 2] = m.out[1], ![b + 3] = m.out[2]]
             a == ecAdd(mem1[b + 2], mem1[b + 3], mem1[b + 4], mem1[b + 5])
             mem2 == [mem1 EXCEPT ![b + 1] = a.out[1], ![b + 2] = a.out[2]]
         IN  IF ~m.ret
             THEN [reverted |-> TRUE, mem |-> mem, reads |-> acc.reads \cup (b..(b + 2)),
                   muls |-> acc.muls, adds |-> acc.adds]
             ELSE IF ~a.ret
             THEN [reverted |-> TRUE, mem |-> mem1, reads |-> acc.reads \cup (b..(b + 4)),
                   muls |-> acc.muls + 1, adds |-> acc.adds]
             ELSE msmLoop(mem2, offset, pos - 1,
                          [reads |-> acc.reads \cup (b..(b + 4)),
                           muls |-> acc.muls + 1, adds |-> acc.adds + 1])

\* AggregatorLib.msm(input, offset, length); after is the memory that
\* follows the array. The array comes back as input, the result at
\* input[offset], input[offset + 1]
msm(input, offset, length, after) ==
    LET r == msmLoop(input \o after, offset, length, [reads |-> {}, muls |-> 0, adds |-> 0])
    IN  [reverted |-> r.reverted, input |-> SubSeq(r.mem, 1, Len(input)),
         reads |-> r.reads, muls |-> r.muls, adds |-> r.adds]

RECURSIVE fillCommitments(_, _, _)
\* the unrolled template loop: buf[3k] = commitment[0]; buf[3k + 1] = commitment[1]
fillCommitments(buf, lagrange, k) ==
    IF k >= Len(lagrange) THEN buf
    ELSE fillCommitments([buf EXCEPT ![3 * k + 1] = lagrange[k + 1][1],
                                     ![3 * k + 2] = lagrange[k + 1][2]],
                         lagrange, k + 1)

RECURSIVE fillInstances(_, _, _)
\* for (i = 0; i < instances.length; i++) buf[i * 3 + 2] = instances[i]
fillInstances(buf, instances, i) ==
    IF i >= Len(instances) THEN buf
    ELSE fillInstances([buf EXCEPT ![i * 3 + 2 + 1] = instances[i + 1]], instances, i + 1)

\* the body shared by the two functions, which differ in the list of
\* commitments rendered into them and in the message of their require
calc_circuit_lagrange(lagrange, instances, after, message) ==
    LET buf == Zeros(Len(lagrange) * 3)
    IN  IF ~(Len(instances) * 3 <= Len(buf))
        THEN [reverted |-> TRUE, message |-> message, filled |-> <<>>, buf |-> <<>>,
              reads |-> {}, muls |-> 0, adds |-> 0]
        ELSE LET filled == fillInstances(fillCommitments(buf, lagrange, 0), instances, 0)
                 r == msm(filled, 0, Len(instances), after)
             IN  [reverted |-> r.reverted, message |-> "", filled |-> filled,
                  buf |-> r.input, reads |-> r.reads, muls |-> r.muls, adds |-> r.adds]

calc_verfiy_circuit_lagrange(lagrange, instances, after) ==
    calc_circuit_lagrange(lagrange, instances, after, "too many verify instances")

calc_target_circuit_lagrange(lagrange, instances, after) ==
    calc_circuit_lagrange(lagrange, instances, after, "too many target instances")

(* ------------------------ Solidity transcript engine ------------------ *)

MaxSolEvals == 4

\* The words the two engines handle are named, not valued: the init
\* scalar, word i of the instance commitments, word k of the transcript,
\* the digest of squeeze j, the zero word
InitWord == <<"init_scalar", 0>>

InstanceWord(i) == <<"instance_commitment", i>>

TranscriptWord(k) == <<"transcript", k>>

DigestWord(j) == <<"digest", j>>

ZeroWord == <<"zero", 0>>

\* an engine at work: stop is "" or why it stopped, absorbing the buffer,
\* pos and transcript_pos the two cursors, challenges the input hashed by
\* each squeeze, absorbed the transcript words put into the buffer,
\* checked the transcript positions of the points checked to be on the curve
EngineState(stop, buf, pos, tp, hashed, absorbed, checked) ==
    [stop |-> stop, absorbing |-> buf, pos |-> pos, transcript_pos |-> tp,
     challenges |-> hashed, absorbed |-> absorbed, checked |-> checked]

Stopped(st, why) == [st EXCEPT !.stop = why]

\* absorbing[pos++] = transcript[transcript_pos++], both indices checked
solAbsorbWord(st, nWords) ==
    IF st.stop # "" THEN st
    ELSE IF st.transcript_pos >= nWords \/ st.pos >= Len(st.absorbing)
    THEN Stopped(st, "Panic(0x32)")
    ELSE [st EXCEPT !.absorbing[st.pos + 1] = TranscriptWord(st.transcript_pos),
                    !.pos = st.pos + 1,
                    !.transcript_pos = st.transcript_pos + 1,
                    !.absorbed = Append(st.absorbed, st.transcript_pos)]

\* AggregatorLib.check_on_curve(transcript[transcript_pos], transcript[transcript_pos + 1])
solCheckOnCurve(st, nWords) ==
    IF st.stop # "" THEN st
    ELSE IF st.transcript_pos + 1 >= nWords THEN Stopped(st, "Panic(0x32)")
    ELSE [st EXCEPT !.checked = st.checked \cup {st.transcript_pos}]

\* one turn of a loop over points: the check, then the two words
solAbsorbPoint(st, nWords) ==
    solAbsorbWord(solAbsorbWord(solCheckOnCurve(st, nWords), nWords), nWords)

\* challenges[j] = squeeze_challenge(absorbing, pos); pos = 1
solSqueeze(st) ==
    IF st.stop # "" THEN st
    ELSE IF st.pos >= Len(st.absorbing) THEN Stopped(st, "Panic(0x32)")
    ELSE [st EXCEPT !.challenges = Append(st.challenges, SubSeq(st.absorbing, 1, st.pos)),
                    !.absorbing = [[st.absorbing EXCEPT ![st.pos + 1] = ZeroWord]
                                      EXCEPT ![1] = DigestWord(Len(st.challenges))],
                    !.pos = 1]

RECURSIVE solPoints(_, _, _)
solPoints(st, nWords, n) ==
    IF n = 0 THEN st ELSE solPoints(solAbsorbPoint(st, nWords), nWords, n - 1)

RECURSIVE solScalars(_, _, _)
solScalars(st, nWords, n) ==
    IF n = 0 THEN st ELSE solScalars(solAbsorbWord(st, nWords), nWords, n - 1)

RECURSIVE solCheckRest(_, _)
\* for (; transcript_pos < transcript.length; transcript_pos += 2) check_on_curve(...)
solCheckRest(st, nWords) ==
    IF st.stop # "" \/ st.transcript_pos >= nWords THEN st
    ELSE LET c == solCheckOnCurve(st, nWords)
         IN  IF c.stop # "" THEN c
             ELSE solCheckRest([c EXCEPT !.transcript_pos = c.transcript_pos + 2], nWords)

\* the head of get_chanllenges: the buffer of evals * 2 words and its seed
solSeed(tpl, nInstanceWords) ==
    LET size == tpl.evals * 2
        empty == EngineState("", [k \in 1..size |-> ZeroWord], 0, 0, <<>>, <<>>, {})
    IN  IF size < 3 \/ nInstanceWords < 2 THEN Stopped(empty, "Panic(0x32)")
        ELSE [empty EXCEPT !.absorbing[1] = InitWord,
                           !.absorbing[2] = InstanceWord(0),
                           !.absorbing[3] = InstanceWord(1),
                           !.pos = 3]

\* get_chanllenges(transcript, instance_commitment) of the template
\* rendered with tpl, on a transcript of nWords words
get_chanllenges(tpl, nWords, nInstanceWords) ==
    LET s0 == solSeed(tpl, nInstanceWords)
        theta == solSqueeze(solPoints(s0, nWords, tpl.nadvice))
        beta == solSqueeze(solPoints(theta, nWords, tpl.lookups * 2))
        gamma == solSqueeze(beta)
        y == solSqueeze(solPoints(gamma, nWords, tpl.permutaion_products + tpl.lookups + 1))
        x == solSqueeze(solPoints(y, nWords, tpl.degree))
        v == solSqueeze(solScalars(x, nWords, tpl.evals))
        u == solSqueeze(v)
    IN  solCheckRest(u, nWords)

RECURSIVE circuitSeed(_, _)
\* getChallengesShPlonkCircuit, lines 95-108: the init scalar, then X and Y
\* of every instance commitment
circuitSeed(buf, n) ==
    IF n = 0 THEN buf
    ELSE circuitSeed(buf, n - 1) \o <<InstanceWord(2 * n - 2), InstanceWord(2 * n - 1)>>

\* one loop body of getChallengesShPlonkCircuit at the loop position at
circuitBody(st, nWords, at) ==
    IF at.ph = 1
    THEN IF st.transcript_pos + 1 >= nWords THEN Stopped(st, "index out of range")
         ELSE [st EXCEPT !.checked = st.checked \cup {st.transcript_pos},
                         !.absorbing = st.absorbing \o <<TranscriptWord(st.transcript_pos),
                                                         TranscriptWord(st.transcript_pos + 1)>>,
                         !.absorbed = st.absorbed \o <<st.transcript_pos, st.transcript_pos + 1>>,
                         !.transcript_pos = st.transcript_pos + 2]
    ELSE IF at.ph = 2
    THEN [st EXCEPT !.challenges = Append(st.challenges, st.absorbing),
                    !.absorbing = <<DigestWord(Len(st.challenges))>>]
    ELSE IF st.transcript_pos >= nWords THEN Stopped(st, "index out of range")
         ELSE [st EXCEPT !.absorbing = Append(st.absorbing, TranscriptWord(st.transcript_pos)),
                         !.absorbed = Append(st.absorbed, st.transcript_pos),
                         !.transcript_pos = st.transcript_pos + 1]

RECURSIVE circuitLoops(_, _, _, _)
\* the loops over opSeq, lines 120-136, from the loop position at on
circuitLoops(ops, st, nWords, at) ==
    IF st.stop # "" \/ at.i > Len(ops) THEN st
    ELSE circuitLoops(ops, circuitBody(st, nWords, at), nWords, Step(ops, at))

\* getChallengesShPlonkCircuit on named words: nCommitments instance
\* commitments, a transcript of nWords words
getChallengesShPlonkCircuit(cfg, nWords, nCommitments) ==
    circuitLoops(opSeq(cfg),
                 EngineState("", circuitSeed(<<InitWord>>, nCommitments), 0, 0, <<>>, <<>>, {}),
                 nWords, Advance(opSeq(cfg), StartPos))

\* the template parameters a Config is rendered to: lookups * 2 points
\* before beta, permutaion_products + lookups + 1 before y
TemplateOf(cfg) ==
    [nadvice |-> cfg.NbAdvices, lookups |-> cfg.NbLookupsZs,
     permutaion_products |-> cfg.NbPermutationGroups,
     degree |-> cfg.Degree, evals |-> cfg.NbEvals]

\* the Configs the two engines are compared on: NbLookupsM = 2 * NbLookupsZs
SolConfigs ==
    { ConfigOf(<<d, a, 2 * l, l, p, e>>, <<"5">>, 1, NoBad) :
        d \in 0..1, a \in 0..1, l \in 0..1, p \in 0..1, e \in 0..MaxSolEvals }

\* the Lagrange commitments rendered into the template: n points
LagrangeWords(n) == [k \in 1..n |-> G1Encode(k + 1)]

\* the instances of a call: up to one more than there are commitments
InstanceWords ==
    UNION { [1..n -> {1, 3}] : n \in 0..(MaxCommitments + 1) }

\* the two words of memory behind the buffer: never written, a point, no point
MemoryAfter == { <<0, 0>>, G1Encode(5), <<5, 5>> }

FnCalls ==
    { [fn |-> "ScalarPow", x |-> x, n |-> n] : x \in PowBases, n \in 0..MaxExp }
    \cup { [fn |-> f, curve |-> c, scalar |-> v] :
             f \in {"BN254ScalarMul", "BN254ScalarMulConstant"},
             c \in {"BN254"}, v \in NativeScalars("BN254") }
    \cup { [fn |-> f, curve |-> c, scalar |-> v] :
             f \in {"BN254ScalarMul", "BN254ScalarMulConstant"},
             c \in {"BLS12_381"}, v \in NativeScalars("BLS12_381") }
    \cup { [fn |-> "ToU256", curve |-> "BN254", scalar |-> v] : v \in NativeScalars("BN254") }
    \cup { [fn |-> "ToU256", curve |-> "BLS12_381", scalar |-> v] : v \in NativeScalars("BLS12_381") }
    \cup { [fn |-> "SavePkVk", id |-> id] : id \in {"GROTH16", "PLONK", "UNKNOWN"} }
    \cup { [fn |-> f, commitments |-> LagrangeWords(c), instances |-> i, after |-> m] :
             f \in {"calc_verfiy_circuit_lagrange", "calc_target_circuit_lagrange"},
             c \in 0..MaxCommitments, i \in InstanceWords, m \in MemoryAfter }
    \cup { [fn |-> "get_chanllenges", cfg |-> c,
             words |-> WordsOf(opSeq(c), 1) + d, instanceCommitments |-> n] :
             c \in SolConfigs, d \in {0 - 1, 0, 2}, n \in 1..2 }

ApplyScalarPow ==
    /\ call.fn = "ScalarPow"
    /\ result.fn = ""
    /\ \E r \in {ScalarPow(call.x, call.n)} :
           result' = [fn |-> "ScalarPow", value |-> r.value, muls |-> r.muls,
                      iterations |-> r.iterations]
    /\ UNCHANGED <<circuit, harness, call>>

ApplyBN254ScalarMul ==
    /\ call.fn = "BN254ScalarMul"
    /\ result.fn = ""
    /\ \E r \in {BN254ScalarMul([op |-> "G1"], call.scalar, call.curve)} :
           result' = [fn |-> "BN254ScalarMul", point |-> r.point, asserts |-> r.asserts]
    /\ UNCHANGED <<circuit, harness, call>>

ApplyBN254ScalarMulConstant ==
    /\ call.fn = "BN254ScalarMulConstant"
    /\ result.fn = ""
    /\ \E r \in {BN254ScalarMulConstant(G1Constant, call.scalar, call.curve)} :
           result' = [fn |-> "BN254ScalarMulConstant", point |-> r.point, asserts |-> r.asserts]
    /\ UNCHANGED <<circuit, harness, call>>

\* a variable to a U256 by ToU256 and back by ToValue
ApplyToU256 ==
    /\ call.fn = "ToU256"
    /\ result.fn = ""
    /\ \E r \in {ToU256(call.scalar, ScalarField(call.curve))} :
           result' = [fn |-> "ToU256", word |-> r.word, asserts |-> r.asserts,
                      back |-> ToValue(r.word, ScalarField(call.curve))]
    /\ UNCHANGED <<circuit, harness, call>>

\* keys of backend id saved by SavePkVk, then read by ReadPkVk
ApplySavePkVk ==
    /\ call.fn = "SavePkVk"
    /\ result.fn = ""
    /\ \E w \in {SavePkVk(call.id, call.id)} : \E r \in {ReadPkVk(call.id)} :
           result' = [fn |-> "SavePkVk", panic |-> w.panic, written |-> w.written,
                      pkPath |-> r.pkPath, vkPath |-> r.vkPath, kind |-> r.kind]
    /\ UNCHANGED <<circuit, harness, call>>

ApplyCalcVerifyCircuitLagrange ==
    /\ call.fn = "calc_verfiy_circuit_lagrange"
    /\ result.fn = ""
    /\ \E r \in {calc_verfiy_circuit_lagrange(call.commitments, call.instances, call.after)} :
           result' = [fn |-> call.fn, out |-> r]
    /\ UNCHANGED <<circuit, harness, call>>

ApplyCalcTargetCircuitLagrange ==
    /\ call.fn = "calc_target_circuit_lagrange"
    /\ result.fn = ""
    /\ \E r \in {calc_target_circuit_lagrange(call.commitments, call.instances, call.after)} :
           result' = [fn |-> call.fn, out |-> r]
    /\ UNCHANGED <<circuit, harness, call>>

\* both engines on the same Config, transcript and instance commitments
ApplyGetChallenges ==
    /\ call.fn = "get_chanllenges"
    /\ result.fn = ""
    /\ \E sol \in {get_chanllenges(TemplateOf(call.cfg), call.words, 2 * call.instanceCommitments)} :
       \E cir \in {getChallengesShPlonkCircuit(call.cfg, call.words, call.instanceCommitments)} :
           result' = [fn |-> call.fn, sol |-> sol, circuit |-> cir]
    /\ UNCHANGED <<circuit, harness, call>>

FnNext ==
    \/ ApplyScalarPow
    \/ ApplyBN254ScalarMul
    \/ ApplyBN254ScalarMulConstant
    \/ ApplyToU256
    \/ ApplySavePkVk
    \/ ApplyCalcVerifyCircuitLagrange
    \/ ApplyCalcTargetCircuitLagrange
    \/ ApplyGetChallenges

FnInit ==
    /\ DefineIdle
    /\ HarnessIdle
    /\ call \in FnCalls
    /\ result = [fn |-> ""]

FnSpec == FnInit /\ [][FnNext]_vars

(* ------------------------------- claims ------------------------------- *)

IsEngineOp(e) == e.op \in {"AssertOnCurve", "squeezeChallenge", "commonScalar"}

\* the transcript operations made so far, in order: a point absorption
\* shows as the on-curve assertion it starts with
EngineOps == SelectSeq(log, IsEngineOp)

EngineOpNames == [k \in 1..Len(EngineOps) |-> EngineOps[k].op]

EngineStarted == \E k \in 1..Len(log) : log[k].op = "seed"

EngineReturned == \E k \in 1..Len(log) : log[k].op = "return"

Rep(x, n) == [k \in 1..n |-> x]

IsPrefix(s, t) == Len(s) <= Len(t) /\ \A k \in 1..Len(s) : s[k] = t[k]

\* rounds 1-4 as the operations they are made of
RoundsOneToFour(cfg) ==
    Rep("AssertOnCurve", cfg.NbAdvices) \o <<"squeezeChallenge">>
    \o Rep("AssertOnCurve", cfg.NbLookupsM) \o <<"squeezeChallenge", "squeezeChallenge">>
    \o Rep("AssertOnCurve", cfg.NbPermutationGroups + cfg.NbLookupsZs + 1) \o <<"squeezeChallenge">>
    \o Rep("AssertOnCurve", cfg.Degree) \o <<"squeezeChallenge">>
    \o Rep("commonScalar", cfg.NbEvals)

\* the points rounds 1-4 absorb from the proof
PointsOfRounds(cfg) ==
    cfg.NbAdvices + cfg.NbLookupsM + cfg.NbPermutationGroups + cfg.NbLookupsZs + 1 + cfg.Degree

\* C1: the engine's operations follow rounds 1-4 in the fixed order -
\* NbAdvices points, 1 squeeze; NbLookupsM points, 2 squeezes;
\* NbPermutationGroups + NbLookupsZs + 1 points, 1 squeeze; Degree points,
\* 1 squeeze, NbEvals scalars - at every moment (what was done so far is
\* the beginning of that sequence or continues it), and an engine that has
\* returned has done all of it
C1_RoundOrder ==
    LET done == EngineOpNames
        rounds == RoundsOneToFour(config)
    IN  /\ IsPrefix(done, rounds) \/ IsPrefix(rounds, done)
        /\ EngineReturned => IsPrefix(rounds, done)

\* C1: an engine that returned after absorbing an advice point, a point of
\* round 4 and an evaluation scalar
C1_Witness ==
    /\ EngineReturned
    /\ config.NbAdvices >= 1 /\ config.Degree >= 1 /\ config.NbEvals >= 1
    /\ Len(evals) = config.NbEvals

\* C2 as stated: after the scalars of round 4 the engine squeezes 2 and then
\* 1 challenge and absorbs nothing; its last operation is the squeeze of u
\* and it has absorbed NbAdvices + NbLookupsM + NbPermutationGroups +
\* NbLookupsZs + 1 + Degree points
C2_AsStated ==
    EngineReturned =>
        /\ EngineOpNames = RoundsOneToFour(config)
                             \o <<"squeezeChallenge", "squeezeChallenge", "squeezeChallenge">>
        /\ EngineOpNames[Len(EngineOpNames)] = "squeezeChallenge"
        /\ Len(commitments) = PointsOfRounds(config)

\* C2 as the engine does it: after the scalars of round 4 it squeezes 2
\* challenges, absorbs one point of the proof, squeezes 1 challenge and
\* absorbs one more point: its last operation is a point absorption and it
\* has absorbed NbAdvices + NbLookupsM + NbPermutationGroups + NbLookupsZs
\* + 1 + Degree + 2 points
C2_TailAbsorbsTwoPoints ==
    LET done == EngineOpNames
        all == RoundsOneToFour(config)
                 \o <<"squeezeChallenge", "squeezeChallenge", "AssertOnCurve",
                      "squeezeChallenge", "AssertOnCurve">>
    IN  /\ IsPrefix(done, all)
        /\ EngineReturned =>
              /\ done = all
              /\ Len(commitments) = PointsOfRounds(config) + 2

\* C2: an engine that returned, its last two points absorbed after the
\* scalars of round 4
C2_Witness ==
    /\ pc = "verify"
    /\ config.NbEvals >= 1
    /\ Len(commitments) = PointsOfRounds(config) + 2
    /\ EngineOps[Len(EngineOps)].op = "AssertOnCurve"

RECURSIVE AddTimesDigits(_, _, _, _, _)
AddTimesDigits(c, q, k, carry, i) ==
    IF i > Len(c) THEN <<carry>>
    ELSE LET t == c[i] + q[i] * k + carry
         IN  <<t % 256>> \o AddTimesDigits(c, q, k, t \div 256, i + 1)

\* c + k * q, one digit longer than c
BigAddTimes(c, q, k) == AddTimesDigits(c, q, k, 0, 1)

\* c is the representative in [0, q) of the residue class of v modulo q
IsResidue(c, v, q) ==
    /\ ~BigGeq(c, q)
    /\ \E k \in 0..5 : BigAddTimes(c, q, k) = Append(v, 0)

\* C3: a step that appends a challenge hashes the buffer followed by one
\* 0 byte, leaves the 32-byte digest as the whole buffer, and appends
\* exactly one challenge: the digest read big-endian (digest byte 0 most
\* significant), reduced modulo the scalar field of the native curve
C3_Squeeze ==
    [][Len(challenges') # Len(challenges) =>
          LET input == absorbing \o <<0>>
              digest == absorbing'
              last == log'[Len(log')]
          IN  /\ last.op = "squeezeChallenge" /\ last.data = input
              /\ digest = Sha256(input)
              /\ Len(digest) = 32
              /\ Len(challenges') = Len(challenges) + 1
              /\ SubSeq(challenges', 1, Len(challenges)) = challenges
              /\ IsResidue(challenges'[Len(challenges')], Reverse(digest),
                           ScalarField(curveID))]_vars

\* C3: two squeezes in a row, the second hashing the first digest and one
\* 0 byte, the second digest being reduced to give the challenge
C3_Witness ==
    /\ Len(log) >= 2 /\ Len(challenges) >= 2
    /\ log[Len(log)].op = "squeezeChallenge"
    /\ log[Len(log) - 1].op = "squeezeChallenge"
    /\ log[Len(log)].data = Append(Sha256(log[Len(log) - 1].data), 0)
    /\ challenges[Len(challenges)] # Reverse(absorbing)

IsPointOp(e) == e.op = "AssertOnCurve"

IsCurveConstraint(c) == c.kind = "AssertIsOnCurve"

\* C4: every entry of commitments is the point of the two words consumed
\* by a point absorption, in order, and curveApi.AssertIsOnCurve was
\* emitted for each; every word appended to the buffer is the word of a
\* commonScalar or a word of a point that AssertOnCurve was called on first
C4_OnCurveBeforeAbsorb ==
    LET pts == SelectSeq(log, IsPointOp)
        onCurve == SelectSeq(cs, IsCurveConstraint)
    IN  /\ Len(commitments) = Len(pts)
        /\ Len(onCurve) = Len(pts)
        /\ \A k \in 1..Len(pts) :
              /\ commitments[k] = [X |-> decoded[pts[k].pos + 1], Y |-> decoded[pts[k].pos + 2]]
              /\ onCurve[k].arg = commitments[k]
        /\ \A n \in 1..Len(log) :
              log[n].op = "commonU256" =>
                 \/ /\ n > 1
                    /\ log[n - 1].op \in {"commonScalar", "AssertOnCurve"}
                    /\ log[n - 1].pos = log[n].pos
                 \/ /\ n > 2
                    /\ log[n - 1].op = "commonU256" /\ log[n - 1].pos = log[n].pos - 1
                    /\ log[n - 2].op = "AssertOnCurve" /\ log[n - 2].pos = log[n].pos - 1

\* C4: two points of the proof have been absorbed
C4_Witness ==
    /\ pc = "opSeq"
    /\ Len(commitments) >= 2
    /\ config.NbAdvices >= 1

RECURSIVE DivBE(_, _, _, _)
\* the big-endian digits be[i..] with rem carried in, divided by d
DivBE(be, d, i, rem) ==
    IF i > Len(be) THEN [quot |-> <<>>, rem |-> rem]
    ELSE LET t == rem * 256 + be[i]
             rest == DivBE(be, d, i + 1, t % d)
         IN  [quot |-> <<t \div d>> \o rest.quot, rem |-> rest.rem]

\* the six decimal digits of n < 10^6
SixDigits(n) == [i \in 1..6 |-> Digits[((n \div (10 ^ (6 - i))) % 10) + 1]]

RECURSIVE DecimalFrom(_, _)
\* the decimal digits of the big-endian number be, six at a time, before acc
DecimalFrom(be, acc) ==
    IF \A i \in 1..Len(be) : be[i] = 0 THEN acc
    ELSE CHOOSE r \in { DecimalFrom(d.quot, SixDigits(d.rem) \o acc) :
                        d \in {DivBE(be, 1000000, 1, 0)} } : TRUE

\* s without its leading zeros ("0" for zero)
StripZeros(s) ==
    IF \A i \in 1..Len(s) : s[i] = "0" THEN <<"0">>
    ELSE LET first == CHOOSE i \in 1..Len(s) : s[i] # "0" /\ \A j \in 1..(i - 1) : s[j] = "0"
         IN  SubSeq(s, first, Len(s))

\* the decimal string of the number whose big-endian bytes are be
ToDecimal(be) == StripZeros(DecimalFrom(be, <<>>))

\* the magnitude of a decimal string: without sign and leading zeros
Magnitude(s) ==
    StripZeros(IF Len(s) > 0 /\ s[1] \in {"+", "-"} THEN SubSeq(s, 2, Len(s)) ELSE s)

\* the 32 bytes of a field element, most significant first
BigEndian(e) == Reverse(DigitsOf(e))

\* C5: when the engine has seeded its buffer and done nothing else, the
\* buffer is the 32-byte big-endian encoding of ChallengeInitScalar (of its
\* magnitude), then for each instance group in order the 32 bytes of X and
\* the 32 bytes of Y of its commitment: 32 + 64 * (number of groups) bytes
C5_InitialBuffer ==
    (Len(log) > 0 /\ log[Len(log)].op = "seed") =>
        /\ Len(absorbing) = 32 + 64 * Len(Instance)
        /\ Len(instanceCommitments) = Len(Instance)
        /\ ToDecimal(SubSeq(absorbing, 1, 32)) = Magnitude(config.ChallengeInitScalar)
        /\ \A g \in 1..Len(Instance) :
              /\ SubSeq(absorbing, 64 * g - 31, 64 * g)
                    = BigEndian(Coord(instanceCommitments[g], 0))
              /\ SubSeq(absorbing, 64 * g + 1, 64 * g + 32)
                    = BigEndian(Coord(instanceCommitments[g], 1))
        /\ Len(commitments) = 0 /\ Len(challenges) = 0 /\ Len(evals) = 0

\* C5: the buffer seeded with two instance commitments
C5_Witness ==
    /\ Len(log) > 0 /\ log[Len(log)].op = "seed"
    /\ Len(Instance) = 2
    /\ Len(absorbing) = 160

\* bit b (from 0) of a word, bit 0 the least significant of byte 0 of limb 0
WordBit(w, b) == (DigitsOf(w)[(b \div 8) + 1] \div (2 ^ (b % 8))) % 2

\* C6: whenever a word given to ToBN254Fp has a non-zero bit at position
\* 254 (the bit-width of Fp) or beyond, one of the assert-zero constraints
\* emitted is violated
C6_OverflowRejected ==
    LET pts == SelectSeq(log, IsPointOp)
    IN  \A k \in 1..Len(pts) : \A c \in 1..2 :
            (\E b \in FpModulusBits..(U256Bits - 1) : WordBit(decoded[pts[k].pos + c], b) = 1)
                => \E n \in 1..Len(cs) : /\ cs[n].kind = "AssertIsEqual"
                                         /\ cs[n].arg[1] # cs[n].arg[2]

\* C7: once proofToU256 has run: the proof size is not a multiple of 32
\* exactly when Define returned "invalid proof size" with no words;
\* otherwise there are len/32 words of 4 limbs of 8 bytes and every proof
\* element n = i*32 + j*8 + k is byte k of limb j of word i
C7_Codec ==
    Len(log) > 0 =>
        /\ (Len(Transcript) % 32 # 0)
              <=> (err.msg = "invalid proof size" /\ pc = "returned" /\ decoded = <<>>)
        /\ Len(Transcript) % 32 = 0 =>
              /\ Len(decoded) = Len(Transcript) \div 32
              /\ \A i \in 1..Len(decoded) :
                    /\ DOMAIN decoded[i] = 1..4
                    /\ \A j \in 1..4 : DOMAIN decoded[i][j] = 1..8
              /\ \A n \in 0..(Len(Transcript) - 1) :
                    decoded[(n \div 32) + 1][((n % 32) \div 8) + 1][(n % 8) + 1]
                        = Transcript[n + 1]

\* C7: a proof that is not a whole number of words was refused
C7_Witness ==
    /\ Len(log) > 0
    /\ Len(Transcript) > 32 /\ Len(Transcript) % 32 # 0
    /\ err.msg = "invalid proof size"

\* the engine stopped, before its return, at an absorption that needs more
\* words than remain
RanOutOfWords ==
    /\ EngineStarted /\ ~EngineReturned
    /\ pc # "opSeq"
    /\ \/ opPos.ph = 1 /\ Len(transcript) < 2
       \/ opPos.ph = 3 /\ Len(transcript) < 1

\* C8: when the transcript runs out of words in the middle of a round the
\* engine returns an InvalidTranscriptLength error to Define, which
\* returns it
C8_ShortTranscriptReported ==
    RanOutOfWords => (pc = "returned" /\ err.msg = "InvalidTranscriptLength")

\* Define returned nil: the circuit was built
Built ==
    /\ pc = "returned" /\ err = Nil
    /\ Len(log) > 0 /\ log[Len(log)].op = "PairingCheck"

\* C9: a circuit is built only from a transcript of as many words as the
\* engine consumes: two for each point it absorbed and one for each
\* evaluation scalar, none left over
C9_MismatchAborts ==
    Built => Len(decoded) = 2 * Len(commitments) + Len(evals)

\* T is scalarMulConstant(VerifyCircuitGLagrange[i], instance i of group g)
\* (i from 1): its base has the coordinates the two decimal strings
\* denote, its scalar is the instance
IsTerm(T, g, i) ==
    /\ T.op = "ScalarMul"
    /\ i <= Len(config.VerifyCircuitGLagrange)
    /\ ToDecimal(Reverse(T.base[1])) = Magnitude(config.VerifyCircuitGLagrange[i][1])
    /\ ToDecimal(Reverse(T.base[2])) = Magnitude(config.VerifyCircuitGLagrange[i][2])
    /\ DigitsOf(T.scalar) = Instance[g][i]

RECURSIVE IsSum(_, _, _)
\* P is ((term 1 + term 2) + ...) + term n of group g
IsSum(P, g, n) ==
    IF n = 1 THEN IsTerm(P, g, 1)
    ELSE /\ P.op = "Add"
         /\ IsSum(P.a, g, n - 1)
         /\ IsTerm(P.b, g, n)

\* C10: the commitment calcInstanceCommitment returned for a group of n
\* scalars is the sum of scalarMulConstant(VerifyCircuitGLagrange[i],
\* instance[i]) over i = 0 .. n-1, each index once, the terms added in
\* increasing index order
C10_InstanceCommitment ==
    \A g \in 1..Len(instanceCommitments) :
        /\ Len(Instance[g]) >= 1
        /\ IsSum(instanceCommitments[g], g, Len(Instance[g]))

\* C10: the commitment of a group of three scalars was returned
C10_Witness ==
    \E g \in 1..Len(instanceCommitments) :
        /\ Len(Instance[g]) = 3
        /\ instanceCommitments[g].op = "Add"

\* calcInstanceCommitment was called on a group with more scalars than
\* Config has Lagrange commitments, all of them well-formed
CalledOnLongGroup ==
    \E k \in 1..Len(log) :
        /\ log[k].op = "calcInstanceCommitment"
        /\ Len(Instance[log[k].round + 1]) > Len(config.VerifyCircuitGLagrange)
        /\ \A i \in 1..Len(config.VerifyCircuitGLagrange) : \A c \in 1..2 :
              SetString(config.VerifyCircuitGLagrange[i][c]).ok

\* C11: when calcInstanceCommitment is given a group with more scalars than
\* Config has Lagrange commitments, Define returns an
\* InstanceCountMismatch error to its caller
C11_CountMismatchReported ==
    CalledOnLongGroup => (pc = "returned" /\ err.msg = "InstanceCountMismatch")

IsSqueezeOp(e) == e.op = "squeezeChallenge"

IsScalarOp(e) == e.op = "commonScalar"

CompiledTwice == Len(compiled) = 2

\* C13: Compile hands out a constraint system only when two successive
\* compilations both succeeded and produced equal constraint systems, and
\* that system is the one handed out; when the second compilation fails or
\* the two systems differ, Compile hands out no constraint system and its
\* error is 'compilation is not deterministic'
C13_Deterministic ==
    /\ ccs # 0 =>
          /\ CompiledTwice
          /\ compiled[1].err = "" /\ compiled[2].err = ""
          /\ compiled[1].cs = compiled[2].cs
          /\ ccs = compiled[1].cs
    /\ (CompiledTwice /\ (compiled[2].err # "" \/ compiled[1].cs # compiled[2].cs)) =>
          /\ ccs = 0
          /\ merr = "compilation is not deterministic"
          /\ mpc = "panicked"

C13_Witness ==
    /\ CompiledTwice
    /\ compiled[1].err = "" /\ compiled[2].err = ""
    /\ compiled[1].cs # compiled[2].cs
    /\ merr = "compilation is not deterministic"
    /\ ccs = 0

\* the stage of Define an entry of the call log belongs to
StageOf(e) ==
    IF e.op = "proofToU256" THEN 1
    ELSE IF e.op \in {"calcInstanceCommitment", "ScalarMulConstant", "AddG1"} THEN 2
    ELSE IF e.op \in {"seed", "AssertOnCurve", "commonU256", "squeezeChallenge",
                     "commonScalar", "return"} THEN 3
    ELSE IF e.op = "verify" THEN 4
    ELSE 5

\* the stage an error of Define comes from
StageOfError(e) ==
    IF e.msg = "invalid proof size" THEN 1
    ELSE IF e.msg \in {"invalid x in VerifyCircuitGLagrange", "invalid y in VerifyCircuitGLagrange"}
    THEN 2
    ELSE IF e.msg = "invalid ChallengeInitScalar" THEN 3
    ELSE 5

IsCalcOp(e) == e.op = "calcInstanceCommitment"

IsPairingOp(e) == e.op = "PairingCheck"

\* C14: the stages of Define run in the order word codec, instance
\* commitments (group 0, 1, ... once each), transcript engine, assembler,
\* pairing check; a stage is entered only after all groups have their
\* commitment; after an error returned by a stage no entry of a later stage
\* is in the call log; the pairing check is called at most once, as the last
\* call, on the two points of the assembler and the first two G2 points
C14_StageOrder ==
    /\ \A k \in 1..(Len(log) - 1) : StageOf(log[k]) <= StageOf(log[k + 1])
    /\ Len(log) > 0 => log[1].op = "proofToU256"
    /\ LET calc == SelectSeq(log, IsCalcOp)
       IN  /\ \A g \in 1..Len(calc) : calc[g].round = g - 1
           /\ Len(calc) <= Len(Instance)
           /\ (\E k \in 1..Len(log) : StageOf(log[k]) >= 3) =>
                 /\ Len(calc) = Len(Instance)
                 /\ Len(instanceCommitments) = Len(Instance)
    /\ (\E k \in 1..Len(log) : StageOf(log[k]) = 5) =>
          \E k \in 1..Len(log) : log[k].op = "verify"
    /\ (\E k \in 1..Len(log) : StageOf(log[k]) = 4) =>
          \E k \in 1..Len(log) : log[k].op = "return"
    /\ (pc = "returned" /\ err # Nil) =>
          /\ \A k \in 1..Len(log) : StageOf(log[k]) <= StageOfError(err)
          /\ StageOf(log[Len(log)]) <= StageOfError(err)
          /\ pairingInput.g2 = <<>>
    /\ (pc = "returned" /\ err = Nil) <=> (Len(log) > 0 /\ log[Len(log)].op = "PairingCheck")
    /\ Len(SelectSeq(log, IsPairingOp)) <= 1
    /\ (Len(log) > 0 /\ log[Len(log)].op = "PairingCheck") =>
          /\ pairingInput.p1 = [op |-> "verify.p1", challenges |-> challenges,
                                commitments |-> commitments, evals |-> evals,
                                instanceCommitments |-> instanceCommitments]
          /\ pairingInput.p2 = [op |-> "verify.p2", challenges |-> challenges,
                                commitments |-> commitments, evals |-> evals,
                                instanceCommitments |-> instanceCommitments]
          /\ pairingInput.g2 = <<config.VerifyCircuitG2Affine[1], config.VerifyCircuitG2Affine[2]>>

C14_Witness ==
    /\ pc = "returned"
    /\ err = Nil
    /\ Len(Instance) = 2
    /\ Len(config.VerifyCircuitGLagrange) >= 2
    /\ log[Len(log)].op = "PairingCheck"

\* Define was stopped by what it found in Config: a coordinate of a Lagrange
\* commitment or the init scalar that is no number or too long, a G2 point
\* that is no number or not on the curve
StoppedOnConfig ==
    /\ pc \in {"returned", "panicked"}
    /\ err.msg \in {"invalid x in VerifyCircuitGLagrange", "invalid y in VerifyCircuitGLagrange",
                    "invalid ChallengeInitScalar", "math/big: buffer too small to fit value",
                    "Element.SetString failed", "invalid g2"}

\* the error carries an index or a value (the init scalar's error prints the
\* scalar, be it the empty string)
Identifies(e) ==
    e.index # NoIndex \/ e.value # <<>> \/ e.msg = "invalid ChallengeInitScalar"

\* C15: when construction stops on a configuration error, Define has
\* returned an error to its caller, and the error names the index or the
\* value that is wrong
C15_ConfigErrorIdentified ==
    StoppedOnConfig => (pc = "returned" /\ Identifies(err))

\* a string of the proof input is no decimal number
MalformedInput ==
    \/ \E i \in 1..Len(proofData.Instance) : \E j \in 1..Len(proofData.Instance[i]) :
          ~SetString(proofData.Instance[i][j]).ok
    \/ \E i \in 1..Len(proofData.Transcript) : ~SetString(proofData.Transcript[i]).ok

Called(step) == \E k \in 1..Len(mlog) : mlog[k] = step

\* C16: once main has parsed a proof input that holds a malformed decimal
\* string, main has stopped with a fatal error for it, and neither
\* NewWitness nor Prove has been called
C16_MalformedInputFatal ==
    (MalformedInput /\ Called("fill")) =>
        /\ mpc = "fatal"
        /\ merr \in {"invalid instance", "invalid transcript"}
        /\ ~Called("NewWitness")
        /\ ~Called("Prove")

RECURSIVE Pow(_, _)
\* x multiplied n times into 1, in the field ScalarPow works in
Pow(x, n) == IF n = 0 THEN 1 % SmallField ELSE (x * Pow(x, n - 1)) % SmallField

RECURSIVE BitLen(_)
\* the number of bits of n: 0 for 0
BitLen(n) == IF n = 0 THEN 0 ELSE 1 + BitLen(n \div 2)

\* C17: ScalarPow(x, n) is x^n in the field, 1 for n = 0 and x for n = 1,
\* and its loop makes as many turns as n has bits
C17_ScalarPow ==
    result.fn = "ScalarPow" =>
        /\ result.value = Pow(call.x, call.n)
        /\ call.n = 0 => result.value = 1
        /\ call.n = 1 => result.value = call.x
        /\ result.iterations = BitLen(call.n)

C17_Witness ==
    /\ result.fn = "ScalarPow"
    /\ call.n = 11
    /\ call.x = 3
    /\ result.value = 177147 % SmallField
    /\ result.iterations = 4

\* C18: ScalarPow makes the same number of multiplications for every base
\* and every exponent of the same bit length as the one it was called with
C18_ConstantTime ==
    result.fn = "ScalarPow" =>
        \A y \in PowBases : \A m \in 0..MaxExp :
            BitLen(m) = BitLen(call.n) => ScalarPow(y, m).muls = result.muls

\* C19: when the scalar given to BN254ScalarMul or BN254ScalarMulConstant
\* has a non-zero bit at position 254 (the bit-width of BN254 Fr) or beyond,
\* one of the assert-zero constraints emitted is violated
C19_ScalarOverflowRejected ==
    (/\ result.fn \in {"BN254ScalarMul", "BN254ScalarMulConstant"}
     /\ \E b \in NativeBits("BN254")..(U256Bits - 1) :
            (call.scalar[(b \div 8) + 1] \div (2 ^ (b % 8))) % 2 = 1)
        => \E n \in 1..Len(result.asserts) :
               /\ result.asserts[n].kind = "AssertIsEqual"
               /\ result.asserts[n].arg[1] # result.asserts[n].arg[2]

\* C20: a value converted to a U256 and back is the same value, the
\* conversion's constraints hold, limb j of the U256 is bits [64j, 64j+64)
\* of the value, and the conversion from bits cuts at the same places
C20_RoundTrip ==
    result.fn = "ToU256" =>
        /\ \A n \in 1..Len(result.asserts) :
               result.asserts[n].arg[1] = result.asserts[n].arg[2]
        /\ result.back = call.scalar
        /\ DigitsOf(result.word) = call.scalar
        /\ U256FromBitsSlices = [j \in 1..NbU64 |-> <<BitsPerLimb * (j - 1), BitsPerLimb * j>>]

\* the steps of main, in the order of its text
MainSteps ==
    <<"flags", "load", "Compile", "Setup", "fill", "NewWitness", "Prove", "Verify",
      "SolidityVerification">>

\* the step an error of main comes from
FailedStep(e) ==
    IF e \in {"Invalid backendID", "Invalid curveID"} THEN "flags"
    ELSE IF e = "load" THEN "load"
    ELSE IF e \in {"Mkdir", "Setup"} THEN "Setup"
    ELSE IF e \in {"NewWitness", "nil pointer dereference"} THEN "NewWitness"
    ELSE IF e \in {"Prove", "Verify", "SolidityVerification"} THEN e
    ELSE IF e = "interface conversion" THEN mlog[Len(mlog)]
    ELSE "Compile"

\* C21: the steps main has taken are an initial part of flags, load,
\* compile, setup, fill, witness, prove, verify, Solidity export, so each is
\* taken at most once and in this order; the backend steps are those of the
\* backend backendID names, whose type assertions held on the keys when
\* prove or verify returned; once a step has failed main has stopped with
\* that step as its last; the Solidity export is called only after verify
\* returned without error
C21_BackendOrder ==
    /\ Len(mlog) <= Len(MainSteps)
    /\ mlog = SubSeq(MainSteps, 1, Len(mlog))
    /\ Called("Setup") => parseBackendID(flags.backendID).id \in {"GROTH16", "PLONK"}
    /\ mpc \in {"verify", "solidity", "done"} => keys.kind = parseBackendID(flags.backendID).id
    /\ merr # "" =>
          /\ mpc \in {"fatal", "panicked"}
          /\ mlog[Len(mlog)] = FailedStep(merr)
    /\ mpc \in {"fatal", "panicked"} => merr # ""
    /\ Called("SolidityVerification") =>
          /\ Called("Verify")
          /\ merr \in {"", "SolidityVerification"}
    /\ mpc = "done" <=> (mlog = MainSteps /\ merr = "")

C21_Witness ==
    /\ mpc = "done"
    /\ mlog = MainSteps
    /\ flags.backendID = "GROTH16"
    /\ keys.kind = "GROTH16"

\* C27: once the Setup of the chosen backend has called GeneratePkVk, the
\* keys were asked for that backend, and the keys it returned are of that
\* backend, so that the type assertions of its Prove and Verify hold on them
C27_SetupKeysOfBackend ==
    keys.prover # "" =>
        /\ keys.prover = parseBackendID(flags.backendID).id
        /\ keys.kind # "" =>
              /\ keys.kind = parseBackendID(flags.backendID).id
              /\ KeyAssertion(parseBackendID(flags.backendID).id, keys)

\* C28: for the backends GROTH16 and PLONK, ReadPkVk opens as proving key
\* and verifying key the files SavePkVk wrote them to, and reads them into
\* key objects of the same backend
C28_KeyFilesRoundTrip ==
    (result.fn = "SavePkVk" /\ call.id \in {"GROTH16", "PLONK"}) =>
        /\ [path |-> result.pkPath, key |-> "pk", kind |-> call.id] \in result.written
        /\ [path |-> result.vkPath, key |-> "vk", kind |-> call.id] \in result.written
        /\ result.kind = call.id

ProofWord(w) == SubSeq(Transcript, WordBytes * w + 1, WordBytes * w + WordBytes)

IsCommonU256(e) == e.op = "commonU256"

\* C23: every commonU256 of a transcript word appends exactly 32 bytes, the
\* proof bytes of the word in reverse order b[31], ..., b[0] (limbs 3 down to
\* 0, bytes 7 down to 0); a commonScalar absorbs one word (32 bytes), a
\* commonPoint two (64 bytes), the X word before the Y word; the bytes are
\* the end of the buffer when nothing was squeezed after them
C23_AbsorbBigEndian ==
    /\ \A n \in 1..Len(log) :
          /\ IsCommonU256(log[n]) =>
                /\ Len(log[n].data) = WordBytes
                /\ log[n].data = Reverse(ProofWord(log[n].pos))
                /\ log[n].data = [m \in 1..WordBytes |->
                                    decoded[log[n].pos + 1][NbU64 - ((m - 1) \div U64Bytes)]
                                                           [U64Bytes - ((m - 1) % U64Bytes)]]
                /\ n > 1
                /\ \/ IsScalarOp(log[n - 1])
                   \/ IsPointOp(log[n - 1])
                   \/ n > 2 /\ IsPointOp(log[n - 2]) /\ IsCommonU256(log[n - 1])
          /\ IsScalarOp(log[n]) =>
                /\ n + 1 <= Len(log)
                /\ IsCommonU256(log[n + 1]) /\ log[n + 1].pos = log[n].pos
                /\ n + 2 <= Len(log) => ~IsCommonU256(log[n + 2])
          /\ IsPointOp(log[n]) =>
                /\ n + 2 <= Len(log)
                /\ IsCommonU256(log[n + 1]) /\ log[n + 1].pos = log[n].pos
                /\ IsCommonU256(log[n + 2]) /\ log[n + 2].pos = log[n].pos + 1
                /\ n + 3 <= Len(log) => ~IsCommonU256(log[n + 3])
    /\ (Len(log) > 0 /\ IsCommonU256(log[Len(log)])) =>
          SubSeq(absorbing, Len(absorbing) - WordBytes + 1, Len(absorbing)) = log[Len(log)].data

\* a point and then a scalar have been absorbed, the scalar last, and the
\* scalar's proof bytes are no palindrome
C23_Witness ==
    /\ Len(log) > 4
    /\ IsCommonU256(log[Len(log)])
    /\ IsScalarOp(log[Len(log) - 1])
    /\ \E n \in 1..Len(log) : IsPointOp(log[n])
    /\ ProofWord(log[Len(log)].pos) # Reverse(ProofWord(log[Len(log)].pos))

\* the 64 bytes absorbed for instance commitment i: X then Y, each big-endian
InstanceBytes(i) ==
    Reverse(DigitsOf(BN254FpToU256(Coord(instanceCommitments[i], 0))))
        \o Reverse(DigitsOf(BN254FpToU256(Coord(instanceCommitments[i], 1))))

RECURSIVE AllInstanceBytes(_)
AllInstanceBytes(i) == IF i = 0 THEN <<>> ELSE AllInstanceBytes(i - 1) \o InstanceBytes(i)

\* the index of the last squeeze or seed among log[1..n], 0 when none
PrevDigestAt(n) ==
    IF \E k \in 1..n : IsSqueezeOp(log[k]) \/ log[k].op = "seed"
    THEN CHOOSE k \in 1..n :
            /\ IsSqueezeOp(log[k]) \/ log[k].op = "seed"
            /\ \A m \in (k + 1)..n : ~(IsSqueezeOp(log[m]) \/ log[m].op = "seed")
    ELSE 0

\* the bytes of the words absorbed by the records log[k+1..n], in order
RECURSIVE AbsorbedBetween(_, _)
AbsorbedBetween(k, n) ==
    IF n <= k THEN <<>>
    ELSE IF IsCommonU256(log[n]) THEN AbsorbedBetween(k, n - 1) \o log[n].data
    ELSE AbsorbedBetween(k, n - 1)

\* the buffer the records log[1..n] account for: the digest of the last
\* squeeze (the seed and the instance commitments before the first one)
\* and every word absorbed since, in order
BufferAfter(n) ==
    LET k == PrevDigestAt(n)
    IN  IF k = 0 THEN <<>>
        ELSE (IF IsSqueezeOp(log[k]) THEN Sha256(log[k].data)
              ELSE log[k].data \o AllInstanceBytes(Len(instanceCommitments)))
                 \o AbsorbedBetween(k, n)

Seeded == \E n \in 1..Len(log) : log[n].op = "seed"

\* the index of the last squeeze in the log, 0 when there is none
LastSqueeze ==
    IF \E n \in 1..Len(log) : IsSqueezeOp(log[n])
    THEN CHOOSE n \in 1..Len(log) :
            IsSqueezeOp(log[n]) /\ \A m \in (n + 1)..Len(log) : ~IsSqueezeOp(log[m])
    ELSE 0

PointsSinceSqueeze ==
    Cardinality({n \in (LastSqueeze + 1)..Len(log) : IsPointOp(log[n])})
        + (IF LastSqueeze = 0 THEN Len(instanceCommitments) ELSE 0)

ScalarsSinceSqueeze == Cardinality({n \in (LastSqueeze + 1)..Len(log) : IsScalarOp(log[n])})

\* C24: once the buffer is seeded, the input of a squeeze (its record is
\* the last of the log in the state the squeeze produces, and the log only
\* grows) is the previous digest (the 32-byte seed and the instance
\* commitments at the first squeeze) followed by every byte absorbed
\* since, in order, followed by one 0 byte; the buffer is what the log
\* accounts for and its length is 32 + 64 * (points since the last squeeze)
\* + 32 * (scalars since)
C24_NothingDropped ==
    Seeded =>
        /\ IsSqueezeOp(log[Len(log)]) =>
              log[Len(log)].data = Append(BufferAfter(Len(log) - 1), 0)
        /\ absorbing = BufferAfter(Len(log))
        /\ Len(absorbing) = DigestLen + 2 * WordBytes * PointsSinceSqueeze
                                + WordBytes * ScalarsSinceSqueeze

\* a squeeze has just hashed a digest and the scalars absorbed after it, in
\* a run that seeded the buffer with an instance commitment
C24_Witness ==
    /\ Len(instanceCommitments) >= 1
    /\ Len(evals) >= 1
    /\ Len(log) > 0
    /\ IsSqueezeOp(log[Len(log)])
    /\ IsCommonU256(log[Len(log) - 1])
    /\ IsScalarOp(log[Len(log) - 2])
    /\ Len(log[Len(log)].data) = DigestLen + WordBytes * Len(evals) + 1

\* the step appended exactly the records ops to the log
Logged(ops) ==
    /\ Len(log') = Len(log) + Len(ops)
    /\ SubSeq(log', 1, Len(log)) = log
    /\ \A n \in 1..Len(ops) : log'[Len(log) + n].op = ops[n]

\* t is s with exactly one element appended
Extends(s, t) == Len(t) = Len(s) + 1 /\ SubSeq(t, 1, Len(s)) = s

\* t is s without its first n elements
Drops(s, t, n) == Len(s) >= n /\ t = SubSeq(s, n + 1, Len(s))

C25_Frame ==
    /\ Logged(<<"squeezeChallenge">>) =>
          /\ Extends(challenges, challenges')
          /\ UNCHANGED <<transcript, commitments, evals>>
    /\ Logged(<<"commonScalar", "commonU256">>) =>
          /\ Drops(transcript, transcript', 1)
          /\ UNCHANGED <<challenges, commitments>>
    /\ Logged(<<"AssertOnCurve", "commonU256", "commonU256">>) =>
          /\ Drops(transcript, transcript', 2)
          /\ Extends(commitments, commitments')
          /\ UNCHANGED <<challenges, evals>>
    /\ Len(transcript') <= Len(decoded')
    /\ transcript' = SubSeq(decoded', Len(decoded') - Len(transcript') + 1, Len(decoded'))

\* C25: a squeeze appends exactly one challenge and leaves the cursor, the
\* commitments and the evaluations unchanged; commonScalar takes exactly
\* one word off the transcript and leaves challenges and commitments
\* unchanged; commonPoint takes exactly two words, appends exactly one
\* commitment and leaves challenges and evaluations unchanged; the
\* remaining transcript is always a suffix of the decoded transcript
C25_FrameEffects == [][C25_Frame]_vars

\* the engine has returned having squeezed, absorbed points and absorbed
\* scalars, with decoded words left over
C25_Witness ==
    /\ pc = "returned" /\ err.msg = ""
    /\ Len(challenges) = 8
    /\ Len(evals) >= 1
    /\ Len(commitments) >= 3
    /\ Len(transcript) >= 1
    /\ Len(transcript) < Len(decoded)

\* the records of the multiplications and additions made for group g (from
\* 0): those between the record of its call and the next call or stage
OpsOfGroup(g, name) ==
    LET start == CHOOSE n \in 1..Len(log) : log[n].op = "calcInstanceCommitment" /\ log[n].round = g
        isOther(e) == e.op \notin {"ScalarMulConstant", "AddG1"}
    IN  { n \in (start + 1)..Len(log) :
            /\ log[n].op = name
            /\ \A m \in (start + 1)..n : ~isOther(log[m]) }

\* C29: calcInstanceCommitment reads index i of the group and of the
\* Lagrange list only for i < n, so a group of n = 0 scalars gives no
\* out-of-range read; a completed group of n >= 1 scalars has cost exactly
\* n fixed-point multiplications and n - 1 additions
C29_ReadsBelowGroupSize ==
    /\ (/\ pc = "panicked"
        /\ err.msg = "index out of range"
        /\ Len(log) > 0
        /\ log[Len(log)].op \in {"calcInstanceCommitment", "ScalarMulConstant", "AddG1"})
          => err.index < Len(Instance[Len(instanceCommitments) + 1])
    /\ \A g \in 0..(Len(instanceCommitments) - 1) :
          /\ Cardinality(OpsOfGroup(g, "ScalarMulConstant")) = Len(Instance[g + 1])
          /\ Cardinality(OpsOfGroup(g, "AddG1")) = Len(Instance[g + 1]) - 1

RECURSIVE FoldedSum(_, _, _)
\* instances[0] * L_0 + ... + instances[n-1] * L_(n-1) for the first n
\* instances, as a multiple of the generator
FoldedSum(lagrange, instances, n) ==
    IF n = 0 THEN 0
    ELSE (FoldedSum(lagrange, instances, n - 1) + instances[n] * lagrange[n][1]) % GroupOrder

IsLagrangeCall(c) == c.fn \in {"calc_verfiy_circuit_lagrange", "calc_target_circuit_lagrange"}

\* the buffer before the MSM: the commitments at 3k and 3k + 1, instance i
\* at 3i + 2, nothing else
FilledAsClaimed(lagrange, instances, filled) ==
    /\ Len(filled) = 3 * Len(lagrange)
    /\ \A k \in 0..(Len(filled) - 1) :
          filled[k + 1] = IF k % 3 # 2 THEN lagrange[(k \div 3) + 1][(k % 3) + 1]
                          ELSE IF k \div 3 < Len(instances) THEN instances[(k \div 3) + 1]
                          ELSE 0

\* C30: with more instances than Lagrange commitments both functions
\* revert with their message and multiply nothing; otherwise they write
\* instance i to slot 3i + 2 only, leave every commitment coordinate, and
\* the MSM is over exactly instances.length triples: it reads no word
\* beyond them and leaves the sum of instance i times commitment i at the
\* head of the buffer
C30_InstanceFolding ==
    (IsLagrangeCall(call) /\ result.fn = call.fn) =>
        LET n == Len(call.instances)
            r == result.out
        IN  /\ n > Len(call.commitments) =>
                  /\ r.reverted
                  /\ r.message = (IF call.fn = "calc_verfiy_circuit_lagrange"
                                  THEN "too many verify instances"
                                  ELSE "too many target instances")
                  /\ r.muls = 0
            /\ n <= Len(call.commitments) =>
                  /\ FilledAsClaimed(call.commitments, call.instances, r.filled)
                  /\ r.muls = n
                  /\ r.reads \subseteq 0..(3 * n - 1)
                  /\ ~r.reverted
                  /\ n > 0 => <<r.buf[1], r.buf[2]>>
                                 = G1Encode(FoldedSum(call.commitments, call.instances, n))

IsChallengesCall(c) == c.fn = "get_chanllenges"

\* C26: on the same Config counts, transcript and instance commitments,
\* get_chanllenges and getChallengesShPlonkCircuit stop together or both
\* finish, and when both finish they hashed the same inputs (the same
\* seed, the same transcript words in the same order, the same number of
\* squeezes at the same places), absorbed the same transcript words and
\* checked the same points to be on the curve
C26_SameTranscriptAlgorithm ==
    (IsChallengesCall(call) /\ result.fn = call.fn) =>
        /\ (result.sol.stop = "") = (result.circuit.stop = "")
        /\ (result.sol.stop = "" /\ result.circuit.stop = "") =>
              /\ result.sol.challenges = result.circuit.challenges
              /\ result.sol.absorbed = result.circuit.absorbed
              /\ result.sol.checked = result.circuit.checked

====
